---- MODULE Spec2Model ----
(***************************************************************************)
(* Model of flinspect: the node registry (node_registry.py), the symbol    *)
(* nodes (parse_node.py), the per-file parse state (parse_state.py), the   *)
(* single-file parse engine (parse_tree.py) and the multi-file             *)
(* orchestrator (parse_forest.py).                                         *)
(*                                                                         *)
(* A dump file is a sequence of lines.  A line is a record whose field t   *)
(* names the production the recognizers look for; the sub-lines a          *)
(* recognizer reads with read_next_line to pick up a name, a dummy         *)
(* argument list, a specification part or an actual-argument list are      *)
(* carried as fields of the line that opens the production.                *)
(***************************************************************************)
EXTENDS Integers, Sequences, FiniteSets, TLC

VARIABLES
    paths,      \* parse_tree_paths: the input files, in input order
    store,      \* NodeRegistry._store: kind -> (key -> node)
    nodes,      \* the heap of node objects; a node's identity is its index
    trees,      \* ParseForest.trees
    tree,       \* the ParseTree object the running pass works on
    phase,      \* where the orchestrator is
    idx,        \* loop index of the orchestrator's current for-loop
    tpc,        \* where the running pass is: "none", "loop", "finally"
    exc,        \* the exception in flight ("" when none)
    unfound_subroutine_calls,   \* ParseForest.unfound_subroutine_calls
    unfound_function_calls,     \* ParseForest.unfound_function_calls
    lastReq,    \* what the last registry request returned
    completed,  \* pass -> files whose pass has returned normally
    graphCalls, \* number of get_call_graph invocations so far
    ret,        \* what the last parse_calls call returned
    m           \* state of the overload-matching harness (SpecMatch)

fvars == <<paths, store, nodes, trees, tree, phase, idx, tpc, exc,
           unfound_subroutine_calls, unfound_function_calls, lastReq,
           completed, graphCalls, ret>>
vars == <<fvars, m>>

\* ------------------------------------------------------------------------
\* Bounds
\* ------------------------------------------------------------------------
MaxFiles == 2        \* files handed to ParseForest
MaxGraphCalls == 2   \* get_call_graph invocations
MaxDepth == 6        \* interpreter recursion limit, scaled down

\* ------------------------------------------------------------------------
\* Values
\* ------------------------------------------------------------------------
None == "<None>"     \* Python None where a string is expected
NoNode == 0          \* Python None where a node is expected
RecErr == -1         \* RecursionError out of find_named_entity

Kinds == {"Module", "Program", "Subprogram", "Subroutine", "Function",
          "Interface", "DerivedType"}
ProgramUnitKinds == {"Module", "Program", "Subprogram"}
CallableKinds == {"Subroutine", "Function"}

\* str.lower() on the names that occur in the files below
Lower(s) ==
    CASE s = "A" -> "a"
      [] s = "B" -> "b"
      [] s = "C" -> "c"
      [] s = "MPI_Send" -> "mpi_send"
      [] s = "MPI_Wtime" -> "mpi_wtime"
      [] s = "Abs" -> "abs"
      [] OTHER -> s

\* callee_name.lower().startswith("mpi_")
StartsWithMpi(s) == Lower(s) \in {"mpi_send", "mpi_wtime", "mpi_"}

\* utils.is_fortran_intrinsic, on the names that occur in the files below
is_fortran_intrinsic(s) == Lower(s) \in {"abs", "size", "trim", "present"}

\* ------------------------------------------------------------------------
\* parse_node.py: the node objects
\* ------------------------------------------------------------------------

\* Node.__init__ .. DerivedType.__init__: the attributes a fresh node of each
\* class gets.  A node is a record with every attribute; HasCallees and
\* HasCallers say which classes really carry the call-edge sets.
NewNode(kind, name, program_unit, parent) ==
    [kind |-> kind, name |-> name,
     program_unit |-> program_unit,  \* Callable/Interface owner, DerivedType scope
     parent |-> parent,
     used_names_lists |-> <<>>,      \* ordered dict: <<[mod, names], ...>>
     used_renames_lists |-> <<>>,    \* ordered dict: <<[mod, renames], ...>>
     subroutines |-> {}, functions |-> {}, interfaces |-> {},
     derived_types |-> {},
     parent_type_name |-> None,      \* DerivedType: set by the parser on EXTENDS
     parse_tree_path |-> 0,
     callees |-> {}, callers |-> {},
     procedures |-> {},
     parsed |-> FALSE,               \* arg_types is not None
     arg_names |-> <<>>, arg_types |-> <<>>, arg_ranks |-> <<>>,
     arg_kinds |-> <<>>, num_required_args |-> 0]

HasCallees(kind) == kind \in {"Program", "Subroutine", "Function", "DerivedType"}
HasCallers(kind) == kind \in {"Subroutine", "Function", "Interface"}
HasProgramUnit(kind) == kind \in {"Subroutine", "Function", "Interface"}

\* ProgramUnit.key, Callable.key, Interface.key, DerivedType.key: the parts
\* that the f-string joins with "::"
NodeKey(nds, kind, name, program_unit, parent) ==
    IF kind \in ProgramUnitKinds THEN <<name>>
    ELSE IF kind \in CallableKinds /\ parent # NoNode
         THEN <<nds[program_unit].name, nds[parent].name, name>>
         ELSE <<nds[program_unit].name, name>>

\* cls(*args): allocate the object and run __init__ on it.  Interface and
\* DerivedType register themselves with their owner.
Construct(nds, kind, name, program_unit, parent) ==
    LET id == Len(nds) + 1
        n1 == Append(nds, NewNode(kind, name, program_unit, parent))
    IN  IF kind = "Interface"
        THEN [n1 EXCEPT ![program_unit].interfaces = @ \cup {id}]
        ELSE IF kind = "DerivedType"
        THEN [n1 EXCEPT ![program_unit].derived_types = @ \cup {id}]
        ELSE n1

\* ------------------------------------------------------------------------
\* node_registry.py
\* ------------------------------------------------------------------------

\* The constructor that always runs and replaces the entry.
GetOrCreateAlwaysNew(st, nds, kind, name, program_unit, parent) ==
    LET key == NodeKey(nds, kind, name, program_unit, parent)
    IN  [store |-> [st EXCEPT ![kind] = (key :> (Len(nds) + 1)) @@ @],
         nodes |-> Construct(nds, kind, name, program_unit, parent),
         id |-> Len(nds) + 1,
         req |-> [kind |-> kind, key |-> key, id |-> Len(nds) + 1,
                  created |-> TRUE]]

\* NodeRegistry._get_or_create
GetOrCreate(st, nds, kind, name, program_unit, parent) ==
    LET key == NodeKey(nds, kind, name, program_unit, parent)
    IN  IF key \in DOMAIN st[kind]
        THEN [store |-> st, nodes |-> nds, id |-> st[kind][key],
              req |-> [kind |-> kind, key |-> key, id |-> st[kind][key],
                       created |-> FALSE]]
        ELSE [store |-> [st EXCEPT ![kind] = (key :> (Len(nds) + 1)) @@ @],
              nodes |-> Construct(nds, kind, name, program_unit, parent),
              id |-> Len(nds) + 1,
              req |-> [kind |-> kind, key |-> key, id |-> Len(nds) + 1,
                       created |-> TRUE]]

NoReq == [kind |-> None, key |-> <<>>, id |-> NoNode, created |-> FALSE]

\* NodeRegistry.__init__
EmptyStore == [k \in Kinds |-> <<>>]

\* ------------------------------------------------------------------------
\* parse_state.py
\* ------------------------------------------------------------------------

\* ParseState(): every field None
FreshParseState ==
    [program |-> NoNode, subprogram |-> NoNode, module |-> NoNode,
     used_module |-> NoNode, routine |-> NoNode, parent_routine |-> NoNode,
     derived_type |-> NoNode]

\* ParseState.program_unit: module or subprogram or program
program_unit(curr) ==
    IF curr.module # NoNode THEN curr.module
    ELSE IF curr.subprogram # NoNode THEN curr.subprogram
    ELSE curr.program

\* ParseState.scope: routine or program_unit
scope(curr) == IF curr.routine # NoNode THEN curr.routine ELSE program_unit(curr)

\* ParseState.get_scope_key: the parts the f-string joins with "::"
get_scope_key(nds, curr) ==
    IF curr.routine # NoNode
    THEN IF curr.parent_routine # NoNode
         THEN <<nds[program_unit(curr)].name, nds[curr.parent_routine].name,
                nds[curr.routine].name>>
         ELSE <<nds[program_unit(curr)].name, nds[curr.routine].name>>
    ELSE IF program_unit(curr) # NoNode
         THEN <<nds[program_unit(curr)].name>>
         ELSE <<"__global__">>

\* ------------------------------------------------------------------------
\* parse_tree.py: the ParseTree object and its line reader
\* ------------------------------------------------------------------------

NoLine == [t |-> None]       \* self.line / self.next_line is None

\* ParseTree.__init__.  gen is the state of _lines_generator: "none" (unset),
\* "started" (suspended at the yield inside the for loop, read lines read
\* from the file), "final" (suspended at the last yield), "exhausted".
NewParseTree(path) ==
    [path |-> path,
     gen |-> "none", read |-> 0,
     line |-> NoLine, next_line |-> NoLine, line_number |-> 0,
     unfound_subroutine_calls |-> <<>>, unfound_function_calls |-> <<>>,
     variables |-> <<>>, declared_in |-> <<>>,
     curr |-> FreshParseState]

\* A reset that keeps the cursor and the open scopes of the pass that ended.
ResetKeepsState(tr) ==
    [tr EXCEPT !.gen = "none", !.read = 0,
               !.unfound_subroutine_calls = <<>>,
               !.unfound_function_calls = <<>>]

\* ParseTree.reset
Reset(tr) ==
    [tr EXCEPT !.gen = "none", !.read = 0,
               !.line = NoLine, !.next_line = NoLine, !.line_number = 0,
               !.curr = FreshParseState,
               !.unfound_subroutine_calls = <<>>,
               !.unfound_function_calls = <<>>]

\* next(self.lines()): resume (or create and start) the generator _iter_lines
\* over the file f.  stop is StopIteration.
NextLine(tr, f) ==
    IF tr.gen = "none"
    THEN IF Len(f) >= 2
         THEN [stop |-> FALSE,
               tree |-> [tr EXCEPT !.gen = "started", !.read = 2,
                                   !.line = f[1], !.next_line = f[2],
                                   !.line_number = @ + 1]]
         ELSE [stop |-> FALSE,
               tree |-> [tr EXCEPT !.gen = "final", !.read = 1,
                                   !.line = f[1], !.next_line = NoLine]]
    ELSE IF tr.gen = "started"
    THEN IF tr.read < Len(f)
         THEN [stop |-> FALSE,
               tree |-> [tr EXCEPT !.read = @ + 1,
                                   !.line = tr.next_line,
                                   !.next_line = f[tr.read + 1],
                                   !.line_number = @ + 1]]
         ELSE [stop |-> FALSE,
               tree |-> [tr EXCEPT !.gen = "final",
                                   !.line = tr.next_line,
                                   !.next_line = NoLine]]
    ELSE [stop |-> TRUE, tree |-> [tr EXCEPT !.gen = "exhausted"]]

\* ParseTree.add_variable.  declared_in is history the code does not keep:
\* the node that was the current scope when the entry was written
add_variable(nds, tr, name, var_info) ==
    [tr EXCEPT !.variables =
        (<<get_scope_key(nds, tr.curr), Lower(name)>> :> var_info) @@ @,
               !.declared_in =
        (<<get_scope_key(nds, tr.curr), Lower(name)>> :> scope(tr.curr)) @@ @]

\* ------------------------------------------------------------------------
\* parse_tree.py: interface overload matching
\* ------------------------------------------------------------------------

\* call_type.startswith("derived:"), on the type names that occur below
StartsWithDerived(ty) == ty \in {"derived:t1", "derived:t2"}

\* The incompatible_pairs table of _types_compatible
incompatible_pairs ==
    << <<{"integer", "real", "numeric"}, {"character", "logical"}>>,
       <<{"character"}, {"integer", "real", "logical", "numeric"}>>,
       <<{"logical"}, {"integer", "real", "character", "numeric"}>> >>

\* A type check that compares an unknown type like any other type.
TypesCompatibleUnknownStrict(call_type, proc_type) ==
    call_type = proc_type

\* A type check without the table of incompatible pairs.
TypesCompatibleNoTable(call_type, proc_type) ==
    IF call_type = "unknown" \/ proc_type = "unknown" THEN TRUE
    ELSE IF StartsWithDerived(call_type) /\ StartsWithDerived(proc_type)
         THEN call_type = proc_type
    ELSE TRUE

\* ParseTree._types_compatible
TypesCompatible(call_type, proc_type) ==
    IF call_type = "unknown" \/ proc_type = "unknown" THEN TRUE
    ELSE IF call_type = proc_type THEN TRUE
    ELSE IF call_type = "numeric" /\ proc_type \in {"integer", "real"} THEN TRUE
    ELSE IF proc_type = "numeric" /\ call_type \in {"integer", "real"} THEN TRUE
    ELSE IF \E i \in 1..Len(incompatible_pairs) :
                \/ (call_type \in incompatible_pairs[i][1]
                    /\ proc_type \in incompatible_pairs[i][2])
                \/ (proc_type \in incompatible_pairs[i][1]
                    /\ call_type \in incompatible_pairs[i][2])
         THEN FALSE
    ELSE IF StartsWithDerived(call_type) /\ StartsWithDerived(proc_type)
         THEN call_type = proc_type
    ELSE TRUE

\* A rank check that lets every pair of ranks pass.
RanksCompatibleAny(call_rank, proc_rank) == TRUE

\* ParseTree._ranks_compatible
RanksCompatible(call_rank, proc_rank) ==
    IF call_rank = -1 \/ proc_rank = -1 THEN TRUE ELSE call_rank = proc_rank

\* ParseTree._kinds_compatible
KindsCompatible(call_kind, proc_kind) ==
    IF call_kind = None \/ proc_kind = None THEN TRUE ELSE call_kind = proc_kind

\* An arity check that forgets the upper limit.
ArityOkNoUpper(proc, num_call_args) ==
    proc.num_required_args <= num_call_args

\* _procedure_matches, "Check argument count": min_args <= n <= max_args
ArityOk(proc, num_call_args) ==
    LET min_args == proc.num_required_args
        max_args == Len(proc.arg_types)
    IN  min_args <= num_call_args /\ num_call_args <= max_args

\* list.index on the lower-cased dummy argument names (1-based here)
IndexOfName(proc, kw_lower) ==
    CHOOSE j \in 1..Len(proc.arg_names) :
        /\ Lower(proc.arg_names[j]) = kw_lower
        /\ \A k \in 1..(j - 1) : Lower(proc.arg_names[k]) # kw_lower

\* A mapping that takes every actual argument by position.
CallToProcIdxPositional(proc, call) ==
    [ok |-> TRUE, idx |-> [i \in 1..Len(call.types) |-> i]]

\* _procedure_matches, the call_to_proc_idx loop: ok is FALSE when a keyword
\* is not a dummy argument name (return False)
CallToProcIdx(proc, call) ==
    LET byName(i) == Len(call.names) > 0 /\ call.names[i] # None
                     /\ Len(proc.arg_names) > 0
        known(i)  == \E j \in 1..Len(proc.arg_names) :
                        Lower(proc.arg_names[j]) = Lower(call.names[i])
    IN  [ok  |-> \A i \in 1..Len(call.types) : byName(i) => known(i),
         idx |-> [i \in 1..Len(call.types) |->
                    IF byName(i) /\ known(i)
                    THEN IndexOfName(proc, Lower(call.names[i]))
                    ELSE i]]

\* ParseTree._procedure_matches
ProcedureMatches(proc, call) ==
    IF ~proc.parsed THEN TRUE
    ELSE IF ~ArityOk(proc, Len(call.types)) THEN FALSE
    ELSE LET map == CallToProcIdx(proc, call)
         IN  /\ map.ok
             /\ (Len(call.types) > 0 /\ Len(proc.arg_types) > 0) =>
                    \A i \in 1..Len(call.types) :
                        map.idx[i] <= Len(proc.arg_types) =>
                            TypesCompatible(call.types[i],
                                            proc.arg_types[map.idx[i]])
             /\ (Len(call.ranks) > 0 /\ Len(proc.arg_ranks) > 0) =>
                    \A i \in 1..Len(call.ranks) :
                        map.idx[i] <= Len(proc.arg_ranks) =>
                            RanksCompatible(call.ranks[i],
                                            proc.arg_ranks[map.idx[i]])
             /\ (Len(call.kinds) > 0 /\ Len(proc.arg_kinds) > 0) =>
                    \A i \in 1..Len(call.kinds) :
                        map.idx[i] <= Len(proc.arg_kinds) =>
                            KindsCompatible(call.kinds[i],
                                            proc.arg_kinds[map.idx[i]])

\* An overload resolution without the fall-back to all members.
ResolveNoFallback(procs, call) ==
    {p \in DOMAIN procs : ProcedureMatches(procs[p], call)}

\* ParseTree.resolve_interface_procedures.  procs maps each member of
\* interface.procedures to its node record; the result is the set of members.
ResolveInterfaceProcedures(procs, call) ==
    LET has_any_signature_info == \E p \in DOMAIN procs : procs[p].parsed
        matching == {p \in DOMAIN procs : ProcedureMatches(procs[p], call)}
    IN  IF ~has_any_signature_info THEN DOMAIN procs
        ELSE IF matching = {} THEN DOMAIN procs
        ELSE matching

\* ------------------------------------------------------------------------
\* parse_tree.py: find_named_entity
\* ------------------------------------------------------------------------

\* The subroutine, else function, else interface of that name that the unit
\* owns directly (the three for-loops at the head of dfs), or NoNode
OwnEntity(nds, unit, name) ==
    LET subs == {x \in nds[unit].subroutines : nds[x].name = name}
        funs == {x \in nds[unit].functions : nds[x].name = name}
        ifcs == {x \in nds[unit].interfaces : nds[x].name = name}
    IN  IF subs # {} THEN CHOOSE x \in subs : TRUE
        ELSE IF funs # {} THEN CHOOSE x \in funs : TRUE
        ELSE IF ifcs # {} THEN CHOOSE x \in ifcs : TRUE
        ELSE NoNode

\* The rename loop of dfs resolving the alias itself inside the used module
FirstAliasSelf(nds, unit, name) ==
    LET rl == nds[unit].used_renames_lists
        hits == {i \in 1..Len(rl) : \E k \in 1..Len(rl[i].renames) :
                                        rl[i].renames[k][1] = name}
    IN  IF hits = {} THEN [mod |-> NoNode, name |-> None]
        ELSE [mod |-> rl[CHOOSE i \in hits : \A j \in hits : i <= j].mod,
              name |-> name]

\* The first (module, original name) whose alias is the sought name, in the
\* order the rename loop of dfs visits them; mod = NoNode when there is none
FirstAlias(nds, unit, name) ==
    LET rl == nds[unit].used_renames_lists
        hits == UNION {{<<i, j>> : j \in {k \in 1..Len(rl[i].renames) :
                                              rl[i].renames[k][1] = name}} :
                       i \in 1..Len(rl)}
    IN  IF hits = {} THEN [mod |-> NoNode, name |-> None]
        ELSE LET h == CHOOSE h \in hits : \A g \in hits :
                          h[1] < g[1] \/ (h[1] = g[1] /\ h[2] <= g[2])
             IN  [mod |-> rl[h[1]].mod, name |-> rl[h[1]].renames[h[2]][2]]

RECURSIVE Dfs(_, _, _, _, _)
RECURSIVE DfsUses(_, _, _, _, _, _)

\* dfs(current_unit, name) inside find_named_entity; visited is the set the
\* closure shares, fuel the interpreter stack that is left
Dfs(nds, current_unit, name, visited, fuel) ==
    IF fuel = 0 THEN [res |-> RecErr, visited |-> visited]
    ELSE IF <<current_unit, name>> \in visited
    THEN [res |-> NoNode, visited |-> visited]
    ELSE
      LET v1 == visited \cup {<<current_unit, name>>}
          own == OwnEntity(nds, current_unit, name)
      IN  IF own # NoNode THEN [res |-> own, visited |-> v1]
          ELSE
            LET u == DfsUses(nds, current_unit, name, 1, v1, fuel)
            IN  IF u.done THEN [res |-> u.res, visited |-> u.visited]
                ELSE
                  LET a == FirstAlias(nds, current_unit, name)
                  IN  IF a.mod = NoNode
                      THEN [res |-> NoNode, visited |-> u.visited]
                      ELSE [res |-> Dfs(nds, a.mod, a.name, {}, fuel - 1).res,
                            visited |-> u.visited]

\* The loop over used_names_lists inside dfs, from its i-th key on; done says
\* the loop returned from dfs
DfsUses(nds, current_unit, name, i, visited, fuel) ==
    LET ul == nds[current_unit].used_names_lists
    IN  IF i > Len(ul)
        THEN [done |-> FALSE, res |-> NoNode, visited |-> visited]
        ELSE
          LET star == "*" \in {ul[i].names[k] : k \in 1..Len(ul[i].names)}
              listed == name \in {ul[i].names[k] : k \in 1..Len(ul[i].names)}
              r == IF star THEN Dfs(nds, ul[i].mod, name, visited, fuel - 1)
                   ELSE [res |-> NoNode, visited |-> visited]
          IN  IF r.res # NoNode
              THEN [done |-> TRUE, res |-> r.res, visited |-> r.visited]
              ELSE IF listed
              THEN [done |-> TRUE,
                    res |-> Dfs(nds, ul[i].mod, name, {}, fuel - 1).res,
                    visited |-> r.visited]
              ELSE DfsUses(nds, current_unit, name, i + 1, r.visited, fuel)

\* ParseTree.find_named_entity: the node, NoNode, or RecErr
FindNamedEntity(nds, origin, name) ==
    LET origin_unit == IF HasProgramUnit(nds[origin].kind)
                       THEN nds[origin].program_unit ELSE origin
    IN  Dfs(nds, origin_unit, name, {}, MaxDepth).res

\* ------------------------------------------------------------------------
\* parse_tree.py: the recognizers.  Each takes the context c = [store, nodes,
\* tree, exc, req] and the current line ln and gives the context it leaves;
\* exc # "" is the exception it raised.
\* ------------------------------------------------------------------------

Raise(c, e) == [c EXCEPT !.exc = e]

\* dict[key] on an ordered dict kept as <<[mod |-> m, ...], ...>>: the index
\* of the key, 0 when absent
DictIndex(d, mod) ==
    IF \E i \in 1..Len(d) : d[i].mod = mod
    THEN CHOOSE i \in 1..Len(d) : d[i].mod = mod
    ELSE 0

\* used_names_lists[mod] = names
SetNames(d, mod, names) ==
    IF DictIndex(d, mod) = 0 THEN Append(d, [mod |-> mod, names |-> names])
    ELSE [d EXCEPT ![DictIndex(d, mod)].names = names]

\* used_renames_lists[mod] = renames
SetRenames(d, mod, renames) ==
    IF DictIndex(d, mod) = 0 THEN Append(d, [mod |-> mod, renames |-> renames])
    ELSE [d EXCEPT ![DictIndex(d, mod)].renames = renames]

\* The declaration the loop of _parse_routine_signature leaves in its maps
\* for a dummy argument: the last EntityDecl of that name, 0 when none
LastDecl(decls, name) ==
    IF \E i \in 1..Len(decls) : decls[i].name = name
    THEN CHOOSE i \in 1..Len(decls) :
            /\ decls[i].name = name
            /\ \A k \in (i + 1)..Len(decls) : decls[k].name # name
    ELSE 0

RECURSIVE AddDeclared(_, _, _, _)
\* The add_variable calls of _parse_routine_signature, in file order
AddDeclared(nds, tr, decls, i) ==
    IF i > Len(decls) THEN tr
    ELSE AddDeclared(nds,
                     add_variable(nds, tr, decls[i].name,
                                  [type |-> decls[i].type, rank |-> decls[i].rank,
                                   kind |-> decls[i].kind]),
                     decls, i + 1)

\* A signature parse that leaves the rank list empty when no
\* SpecificationPart follows the dummy arguments.
ParseRoutineSignatureNoRanks(c, routine, ln) ==
    LET n == Len(ln.args)
        inArgs(nm) == \E i \in 1..n : ln.args[i] = nm
        optional_args == {ln.decls[i].name : i \in {k \in 1..Len(ln.decls) :
                              inArgs(ln.decls[k].name) /\ ln.decls[k].optional}}
        d(i) == LastDecl(ln.decls, ln.args[i])
    IN  IF n = 0 \/ ~ln.spec
        THEN [c EXCEPT !.nodes[routine].parsed = TRUE,
                       !.nodes[routine].arg_names = ln.args,
                       !.nodes[routine].arg_types = [i \in 1..n |-> "unknown"],
                       !.nodes[routine].arg_ranks = <<>>,
                       !.nodes[routine].arg_kinds = [i \in 1..n |-> None],
                       !.nodes[routine].num_required_args = n]
        ELSE [c EXCEPT !.tree = AddDeclared(c.nodes, c.tree, ln.decls, 1),
                       !.nodes[routine].parsed = TRUE,
                       !.nodes[routine].arg_names = ln.args,
                       !.nodes[routine].arg_types =
                           [i \in 1..n |-> IF d(i) = 0 THEN "unknown"
                                           ELSE ln.decls[d(i)].type],
                       !.nodes[routine].arg_ranks =
                           [i \in 1..n |-> IF d(i) = 0 THEN 0
                                           ELSE ln.decls[d(i)].rank],
                       !.nodes[routine].arg_kinds =
                           [i \in 1..n |-> IF d(i) = 0 THEN None
                                           ELSE ln.decls[d(i)].kind],
                       !.nodes[routine].num_required_args =
                           n - Cardinality(optional_args)]

\* ParseTree._parse_routine_signature: ln.args are the dummy argument names,
\* ln.spec says a SpecificationPart follows, ln.decls are its entity
\* declarations [name, type, rank, kind, optional]
ParseRoutineSignature(c, routine, ln) ==
    LET n == Len(ln.args)
        inArgs(nm) == \E i \in 1..n : ln.args[i] = nm
        optional_args == {ln.decls[i].name : i \in {k \in 1..Len(ln.decls) :
                              inArgs(ln.decls[k].name) /\ ln.decls[k].optional}}
        d(i) == LastDecl(ln.decls, ln.args[i])
    IN  IF n = 0
        THEN [c EXCEPT !.nodes[routine].parsed = TRUE,
                       !.nodes[routine].num_required_args = 0,
                       !.nodes[routine].arg_names = <<>>,
                       !.nodes[routine].arg_types = <<>>,
                       !.nodes[routine].arg_ranks = <<>>,
                       !.nodes[routine].arg_kinds = <<>>]
        ELSE IF ~ln.spec
        THEN [c EXCEPT !.nodes[routine].parsed = TRUE,
                       !.nodes[routine].arg_names = ln.args,
                       !.nodes[routine].arg_types = [i \in 1..n |-> "unknown"],
                       !.nodes[routine].arg_ranks = [i \in 1..n |-> 0],
                       !.nodes[routine].arg_kinds = [i \in 1..n |-> None],
                       !.nodes[routine].num_required_args = n]
        ELSE [c EXCEPT !.tree = AddDeclared(c.nodes, c.tree, ln.decls, 1),
                       !.nodes[routine].parsed = TRUE,
                       !.nodes[routine].arg_names = ln.args,
                       !.nodes[routine].arg_types =
                           [i \in 1..n |-> IF d(i) = 0 THEN "unknown"
                                           ELSE ln.decls[d(i)].type],
                       !.nodes[routine].arg_ranks =
                           [i \in 1..n |-> IF d(i) = 0 THEN 0
                                           ELSE ln.decls[d(i)].rank],
                       !.nodes[routine].arg_kinds =
                           [i \in 1..n |-> IF d(i) = 0 THEN None
                                           ELSE ln.decls[d(i)].kind],
                       !.nodes[routine].num_required_args =
                           n - Cardinality(optional_args)]

\* A routine begin that also enters a nested routine in the unit's sets.
ParseRoutineBeginAddsNested(c, ln) ==
    LET curr == c.tree.curr
        kind == IF ln.t = "FunctionStmt" THEN "Function" ELSE "Subroutine"
        curr1 == [curr EXCEPT !.parent_routine = curr.routine]
        pu == program_unit(curr1)
        g == GetOrCreate(c.store, c.nodes, kind, ln.name, pu, curr1.parent_routine)
        n2 == IF kind = "Function"
              THEN [g.nodes EXCEPT ![pu].functions = @ \cup {g.id}]
              ELSE [g.nodes EXCEPT ![pu].subroutines = @ \cup {g.id}]
    IN  IF curr.routine # NoNode /\ curr.parent_routine # NoNode
        THEN Raise(c, "AssertionError: More than one level of routine nesting found")
        ELSE IF pu = NoNode
        THEN Raise([c EXCEPT !.tree.curr = curr1],
                   "AssertionError: Function/Subroutine found without a preceding ModuleStmt or ProgramStmt")
        ELSE ParseRoutineSignature(
                 [c EXCEPT !.store = g.store, !.nodes = n2, !.req = g.req,
                           !.tree.curr = [curr1 EXCEPT !.routine = g.id]],
                 g.id, ln)

\* ParseTree.parse_routine_begin
ParseRoutineBegin(c, ln) ==
    LET curr == c.tree.curr
        kind == IF ln.t = "FunctionStmt" THEN "Function" ELSE "Subroutine"
        curr1 == [curr EXCEPT !.parent_routine = curr.routine]
        pu == program_unit(curr1)
        g == GetOrCreate(c.store, c.nodes, kind, ln.name, pu, curr1.parent_routine)
        n2 == IF curr1.parent_routine # NoNode THEN g.nodes
              ELSE IF kind = "Function"
              THEN [g.nodes EXCEPT ![pu].functions = @ \cup {g.id}]
              ELSE [g.nodes EXCEPT ![pu].subroutines = @ \cup {g.id}]
    IN  IF curr.routine # NoNode /\ curr.parent_routine # NoNode
        THEN Raise(c, "AssertionError: More than one level of routine nesting found")
        ELSE IF pu = NoNode
        THEN Raise([c EXCEPT !.tree.curr = curr1],
                   "AssertionError: Function/Subroutine found without a preceding ModuleStmt or ProgramStmt")
        ELSE ParseRoutineSignature(
                 [c EXCEPT !.store = g.store, !.nodes = n2, !.req = g.req,
                           !.tree.curr = [curr1 EXCEPT !.routine = g.id]],
                 g.id, ln)

\* A routine end that makes the parent current and keeps the parent pointer.
ParseRoutineEndKeepsParent(c, ln) ==
    LET curr == c.tree.curr
        want == IF ln.t = "EndFunctionStmt" THEN "Function" ELSE "Subroutine"
        open == curr.routine # NoNode /\ c.nodes[curr.routine].kind = want
    IN  IF ~open
        THEN Raise(c, "AssertionError: End statement found without a preceding begin statement")
        ELSE IF ln.name # None /\ ln.name # c.nodes[curr.routine].name
        THEN Raise(c, "AssertionError: End statement name does not match")
        ELSE [c EXCEPT !.tree.curr.routine = curr.parent_routine]

\* ParseTree.parse_routine_end
ParseRoutineEnd(c, ln) ==
    LET curr == c.tree.curr
        want == IF ln.t = "EndFunctionStmt" THEN "Function" ELSE "Subroutine"
        open == curr.routine # NoNode /\ c.nodes[curr.routine].kind = want
    IN  IF ~open
        THEN Raise(c, "AssertionError: End statement found without a preceding begin statement")
        ELSE IF ln.name # None /\ ln.name # c.nodes[curr.routine].name
        THEN Raise(c, "AssertionError: End statement name does not match")
        ELSE [c EXCEPT !.tree.curr.routine = curr.parent_routine,
                       !.tree.curr.parent_routine = NoNode]

\* An only clause that appends the name whatever the list holds.
ParseOnlyClauseAppends(c, ln) ==
    LET curr == c.tree.curr
        sc == scope(curr)
    IN  IF curr.used_module = NoNode
        THEN Raise(c, "AssertionError: Only clause found without a preceding UseStmt")
        ELSE IF sc = NoNode
        THEN Raise(c, "AttributeError: 'NoneType' object has no attribute 'used_names_lists'")
        ELSE IF ln.alias # None
        THEN LET rl == c.nodes[sc].used_renames_lists
                 i == DictIndex(rl, curr.used_module)
             IN  IF i = 0 THEN Raise(c, "KeyError")
                 ELSE [c EXCEPT !.nodes[sc].used_renames_lists[i].renames =
                                    Append(@, <<ln.alias, ln.name>>)]
        ELSE LET ul == c.nodes[sc].used_names_lists
                 i == DictIndex(ul, curr.used_module)
             IN  IF i = 0 THEN Raise(c, "KeyError")
                 ELSE [c EXCEPT !.nodes[sc].used_names_lists[i].names =
                                    Append(@, ln.name)]

\* ParseTree.parse_only_clause: ln.alias is None for a plain only-name, the
\* alias for an "Only -> Rename -> Names" production
ParseOnlyClause(c, ln) ==
    LET curr == c.tree.curr
        sc == scope(curr)
    IN  IF curr.used_module = NoNode
        THEN Raise(c, "AssertionError: Only clause found without a preceding UseStmt")
        ELSE IF sc = NoNode
        THEN Raise(c, "AttributeError: 'NoneType' object has no attribute 'used_names_lists'")
        ELSE IF ln.alias # None
        THEN LET rl == c.nodes[sc].used_renames_lists
                 i == DictIndex(rl, curr.used_module)
             IN  IF i = 0 THEN Raise(c, "KeyError")
                 ELSE [c EXCEPT !.nodes[sc].used_renames_lists[i].renames =
                                    Append(@, <<ln.alias, ln.name>>)]
        ELSE LET ul == c.nodes[sc].used_names_lists
                 i == DictIndex(ul, curr.used_module)
             IN  IF i = 0 THEN Raise(c, "KeyError")
                 ELSE IF Len(ul[i].names) > 0 /\ ul[i].names[1] = "*" THEN c
                 ELSE [c EXCEPT !.nodes[sc].used_names_lists[i].names =
                                    Append(@, ln.name)]

\* ParseTree.parse_rename_clause: nxt is peek_next_line()
ParseRenameClause(c, ln, nxt) ==
    LET curr == c.tree.curr
        sc == scope(curr)
    IN  IF curr.used_module = NoNode
        THEN Raise(c, "AssertionError: Rename clause found without a preceding UseStmt")
        ELSE IF sc = NoNode
        THEN Raise(c, "AttributeError: 'NoneType' object has no attribute 'used_renames_lists'")
        ELSE LET rl == c.nodes[sc].used_renames_lists
                 i == DictIndex(rl, curr.used_module)
             IN  IF i = 0 THEN Raise(c, "KeyError")
                 ELSE LET c1 == [c EXCEPT !.nodes[sc].used_renames_lists[i].renames =
                                             Append(@, <<ln.alias, ln.name>>)]
                      IN  IF nxt = NoLine
                          THEN Raise(c1, "TypeError: argument of type 'NoneType' is not iterable")
                          ELSE IF nxt.t # "Rename"
                          THEN [c1 EXCEPT !.tree.curr.used_module = NoNode]
                          ELSE c1

\* A use statement that begins an empty name list when a Rename production
\* follows.
ParseUseStmtRenameEmpty(c, ln, nxt) ==
    LET g == GetOrCreate(c.store, c.nodes, "Module", ln.name, NoNode, NoNode)
        c1 == [c EXCEPT !.store = g.store, !.nodes = g.nodes, !.req = g.req,
                        !.tree.curr.used_module = g.id]
        sc == scope(c1.tree.curr)
        names == c1.nodes[sc].used_names_lists
        renames == c1.nodes[sc].used_renames_lists
    IN  IF nxt = NoLine
        THEN Raise(c1, "AssertionError: Unexpected end of file after UseStmt")
        ELSE IF sc = NoNode
        THEN Raise(c1, "AttributeError: 'NoneType' object has no attribute 'used_names_lists'")
        ELSE IF nxt.t \in {"Only", "Rename"}
        THEN [c1 EXCEPT
                !.nodes[sc].used_names_lists =
                    IF DictIndex(names, g.id) = 0
                    THEN SetNames(names, g.id, <<>>) ELSE names,
                !.nodes[sc].used_renames_lists =
                    IF DictIndex(renames, g.id) = 0
                    THEN SetRenames(renames, g.id, <<>>) ELSE renames]
        ELSE [c1 EXCEPT
                !.nodes[sc].used_names_lists = SetNames(names, g.id, <<"*">>),
                !.nodes[sc].used_renames_lists = SetRenames(renames, g.id, <<>>),
                !.tree.curr.used_module = NoNode]

\* ParseTree.parse_use_stmt: nxt is peek_next_line()
ParseUseStmt(c, ln, nxt) ==
    LET g == GetOrCreate(c.store, c.nodes, "Module", ln.name, NoNode, NoNode)
        c1 == [c EXCEPT !.store = g.store, !.nodes = g.nodes, !.req = g.req,
                        !.tree.curr.used_module = g.id]
        sc == scope(c1.tree.curr)
        names == c1.nodes[sc].used_names_lists
        renames == c1.nodes[sc].used_renames_lists
    IN  IF nxt = NoLine
        THEN Raise(c1, "AssertionError: Unexpected end of file after UseStmt")
        ELSE IF sc = NoNode
        THEN Raise(c1, "AttributeError: 'NoneType' object has no attribute 'used_names_lists'")
        ELSE IF nxt.t = "Only"
        THEN [c1 EXCEPT
                !.nodes[sc].used_names_lists =
                    IF DictIndex(names, g.id) = 0
                    THEN SetNames(names, g.id, <<>>) ELSE names,
                !.nodes[sc].used_renames_lists =
                    IF DictIndex(renames, g.id) = 0
                    THEN SetRenames(renames, g.id, <<>>) ELSE renames]
        ELSE IF nxt.t = "Rename"
        THEN [c1 EXCEPT
                !.nodes[sc].used_names_lists =
                    IF DictIndex(names, g.id) = 0
                    THEN SetNames(names, g.id, <<"*">>) ELSE names,
                !.nodes[sc].used_renames_lists =
                    IF DictIndex(renames, g.id) = 0
                    THEN SetRenames(renames, g.id, <<>>) ELSE renames]
        ELSE [c1 EXCEPT
                !.nodes[sc].used_names_lists = SetNames(names, g.id, <<"*">>),
                !.nodes[sc].used_renames_lists = SetRenames(renames, g.id, <<>>),
                !.tree.curr.used_module = NoNode]

\* ParseTree.parse_module_stmt
ParseModuleStmt(c, ln) ==
    LET g == GetOrCreate(c.store, c.nodes, "Module", ln.name, NoNode, NoNode)
    IN  IF c.tree.curr.module # NoNode
        THEN Raise(c, "AssertionError: ModuleStmt found without a preceding EndModuleStmt")
        ELSE [c EXCEPT !.store = g.store, !.req = g.req,
                       !.nodes = [g.nodes EXCEPT
                                    ![g.id].parse_tree_path = c.tree.path],
                       !.tree.curr.module = g.id]

\* ParseTree.parse_end_module_stmt
ParseEndModuleStmt(c, ln) ==
    IF c.tree.curr.module = NoNode
    THEN Raise(c, "AssertionError: EndModuleStmt found without a preceding ModuleStmt")
    ELSE IF ln.name # None /\ ln.name # c.nodes[c.tree.curr.module].name
    THEN Raise(c, "AssertionError: EndModuleStmt name does not match ModuleStmt name")
    ELSE [c EXCEPT !.tree.curr.module = NoNode]

\* ParseTree.parse_derived_type_stmt
ParseDerivedTypeStmt(c, ln) ==
    LET curr == c.tree.curr
        sc == scope(curr)
        g == GetOrCreate(c.store, c.nodes, "DerivedType", ln.name, sc, NoNode)
    IN  IF curr.derived_type # NoNode
        THEN Raise(c, "AssertionError: Nested DerivedTypeDef not supported")
        ELSE IF ln.name = None
        THEN Raise(c, "AssertionError: DerivedTypeStmt Name syntax not recognized")
        ELSE IF sc = NoNode
        THEN Raise(c, "AttributeError: 'NoneType' object has no attribute 'name'")
        ELSE [c EXCEPT !.store = g.store, !.req = g.req,
                       !.nodes = IF ln.extends # None
                                 THEN [g.nodes EXCEPT
                                         ![g.id].parent_type_name = ln.extends]
                                 ELSE g.nodes,
                       !.tree.curr.derived_type = g.id]

\* An end of a derived type that closes the type before it compares the names.
ParseEndDerivedTypeStmtClosesFirst(c, ln) ==
    IF c.tree.curr.derived_type = NoNode
    THEN Raise(c, "AssertionError: EndTypeStmt found without a preceding DerivedTypeStmt")
    ELSE IF ln.name # None /\ ln.name # c.nodes[c.tree.curr.derived_type].name
    THEN Raise([c EXCEPT !.tree.curr.derived_type = NoNode],
               "AssertionError: EndTypeStmt name does not match DerivedTypeStmt name")
    ELSE [c EXCEPT !.tree.curr.derived_type = NoNode]

\* ParseTree.parse_end_derived_type_stmt
ParseEndDerivedTypeStmt(c, ln) ==
    IF c.tree.curr.derived_type = NoNode
    THEN Raise(c, "AssertionError: EndTypeStmt found without a preceding DerivedTypeStmt")
    ELSE IF ln.name # None /\ ln.name # c.nodes[c.tree.curr.derived_type].name
    THEN Raise(c, "AssertionError: EndTypeStmt name does not match DerivedTypeStmt name")
    ELSE [c EXCEPT !.tree.curr.derived_type = NoNode]

\* ParseTree.parse_type_bound_proc_binding: outside a derived type the
\* recognizer declines the line; inside, the assignment to
\* derived_type.bindings raises, a DerivedType having no such attribute
ParseTypeBoundProcBinding(c, ln) ==
    IF c.tree.curr.derived_type = NoNode THEN c
    ELSE IF ln.name = None THEN c
    ELSE Raise(c, "AttributeError: 'DerivedType' object has no attribute 'bindings'")

\* ParseTree.parse_variable_declaration; inside a derived type the recognizer
\* declines the line and no other one takes it
ParseVariableDeclaration(c, ln) ==
    IF c.tree.curr.derived_type # NoNode THEN c
    ELSE [c EXCEPT !.tree = AddDeclared(c.nodes, c.tree, ln.decls, 1)]

\* ParseTree.parse_program_unit: ln.form is what follows
\* "Program -> ProgramUnit ->", stem is parse_tree_path.stem
ParseProgramUnit(c, ln, stem) ==
    IF ln.form \in {"FunctionSubprogram", "SubroutineSubprogram"}
    THEN LET g == GetOrCreate(c.store, c.nodes, "Subprogram", stem, NoNode, NoNode)
         IN  [c EXCEPT !.store = g.store, !.nodes = g.nodes, !.req = g.req,
                       !.tree.curr.subprogram = g.id]
    ELSE IF ln.form = "Module" THEN c
    ELSE IF ln.form = "MainProgram"
    THEN LET g == GetOrCreate(c.store, c.nodes, "Program", ln.name, NoNode, NoNode)
         IN  IF ln.name = None
             THEN Raise(c, "ValueError: ProgramStmt syntax not recognized")
             ELSE [c EXCEPT !.store = g.store, !.req = g.req,
                            !.nodes = [g.nodes EXCEPT
                                         ![g.id].parse_tree_path = c.tree.path],
                            !.tree.curr.program = g.id]
    ELSE Raise(c, "ValueError: ProgramUnit syntax not recognized")

RECURSIVE AddMembers(_, _, _, _, _)
\* The member loop of parse_interface_stmt, from the i-th ProcedureStmt entry
\* of the block on; handled is what the recognizer returns
AddMembers(c, interface, pu, procs, i) ==
    IF i > Len(procs) THEN [c |-> c, handled |-> TRUE]
    ELSE IF procs[i].kind = "Procedure" THEN [c |-> c, handled |-> FALSE]
    ELSE IF procs[i].kind # "ModuleProcedure"
    THEN [c |-> Raise(c, "AssertionError: Only ModuleProcedure kinds are supported in interface blocks"),
          handled |-> FALSE]
    ELSE LET procedure == FindNamedEntity(c.nodes, pu, procs[i].name)
         IN  IF procedure = RecErr
             THEN [c |-> Raise(c, "RecursionError"), handled |-> FALSE]
             ELSE IF procedure = NoNode
             THEN [c |-> Raise(c, "AssertionError: Could not find module procedure"),
                   handled |-> FALSE]
             ELSE AddMembers(
                      [c EXCEPT !.nodes[interface].procedures = @ \cup {procedure}],
                      interface, pu, procs, i + 1)

\* ParseTree.parse_interface_stmt: ln.form is the generic-spec shape, ln.procs
\* the [kind, name] entries up to EndInterfaceStmt
ParseInterfaceStmt(c, ln) ==
    LET pu == program_unit(c.tree.curr)
        g == GetOrCreate(c.store, c.nodes, "Interface", ln.name, pu, NoNode)
    IN  IF ln.form # "Name" THEN [c |-> c, handled |-> FALSE]
        ELSE IF pu = NoNode
        THEN [c |-> Raise(c, "AssertionError: InterfaceStmt found outside of a program unit"),
              handled |-> FALSE]
        ELSE IF c.tree.curr.routine # NoNode
        THEN [c |-> Raise(c, "AssertionError: InterfaceStmt found within a routine"),
              handled |-> FALSE]
        ELSE AddMembers([c EXCEPT !.store = g.store, !.nodes = g.nodes,
                                  !.req = g.req],
                        g.id, pu, ln.procs, 1)

\* An edge insertion that forgets the back edge of a matched member.
AddEdgesMemberOneWay(nds, caller, callee, members) ==
    [x \in DOMAIN nds |->
        LET n1 == IF x = caller
                  THEN [nds[x] EXCEPT !.callees = @ \cup members \cup {callee}]
                  ELSE nds[x]
        IN  IF x = callee
            THEN [n1 EXCEPT !.callers = @ \cup {caller}]
            ELSE n1]

\* A recording that links the caller to the interface node only.
AddEdgesInterfaceOnly(nds, caller, callee, members) ==
    [x \in DOMAIN nds |->
        LET n1 == IF x = caller
                  THEN [nds[x] EXCEPT !.callees = @ \cup {callee}]
                  ELSE nds[x]
        IN  IF x = callee
            THEN [n1 EXCEPT !.callers = @ \cup {caller}]
            ELSE n1]

\* The caller.callees.add / callee.callers.add pairs of
\* _record_call_dependencies: members are the matched interface members
\* (empty for a plain callable)
AddEdges(nds, caller, callee, members) ==
    [x \in DOMAIN nds |->
        LET n1 == IF x = caller
                  THEN [nds[x] EXCEPT !.callees = @ \cup members \cup {callee}]
                  ELSE nds[x]
        IN  IF x \in members \cup {callee}
            THEN [n1 EXCEPT !.callers = @ \cup {caller}]
            ELSE n1]

\* _record_call_dependencies, the branch "if callee is None"
RecordUnfound(tr, caller_name, callee_name, is_function) ==
    IF is_function
    THEN [tr EXCEPT !.unfound_function_calls = Append(@, <<caller_name, callee_name>>)]
    ELSE IF ~StartsWithMpi(callee_name)
    THEN [tr EXCEPT !.unfound_subroutine_calls = Append(@, <<caller_name, callee_name>>)]
    ELSE tr

\* The member records of an interface, for resolve_interface_procedures
Members(nds, interface) == [p \in nds[interface].procedures |-> nds[p]]

\* ParseTree._record_call_dependencies
RecordCallDependencies(c, callee_name, call, is_function, defining_scope) ==
    LET caller == scope(c.tree.curr)
        first == FindNamedEntity(c.nodes, caller, callee_name)
        callee == IF first = NoNode /\ defining_scope # NoNode
                  THEN FindNamedEntity(c.nodes, defining_scope, callee_name)
                  ELSE first
    IN  IF callee = RecErr THEN Raise(c, "RecursionError")
        ELSE IF callee = NoNode
        THEN [c EXCEPT !.tree = RecordUnfound(c.tree, c.nodes[caller].name,
                                              callee_name, is_function)]
        ELSE IF ~HasCallees(c.nodes[caller].kind)
        THEN Raise(c, "AttributeError: object has no attribute 'callees'")
        ELSE IF c.nodes[callee].kind = "Interface"
        THEN [c EXCEPT !.nodes =
                 AddEdges(c.nodes, caller, callee,
                          ResolveInterfaceProcedures(Members(c.nodes, callee), call))]
        ELSE [c EXCEPT !.nodes = AddEdges(c.nodes, caller, callee, {})]

\* The actual arguments parse_call_arguments hands on: ln.cargs are the
\* inferred [type, rank, kind, name] of the ActualArgSpec blocks.  The lines
\* of a block are read past with read_next_line, a function reference among
\* them (the field ref of ArgRef) included: it reaches no recognizer
CallOf(ln) ==
    [types |-> [i \in 1..Len(ln.cargs) |-> ln.cargs[i].type],
     ranks |-> [i \in 1..Len(ln.cargs) |-> ln.cargs[i].rank],
     kinds |-> [i \in 1..Len(ln.cargs) |-> ln.cargs[i].kind],
     names |-> [i \in 1..Len(ln.cargs) |-> ln.cargs[i].name]]

\* The line designates the procedure through a ProcComponentRef (obj%m)
IsComponentRef(ln) == "object" \in DOMAIN ln

\* var_info.type[len('derived:'):]
DerivedName(ty) == IF ty = "derived:t1" THEN "t1" ELSE "t2"

\* ParseTree.get_variable; NoVar is None
NoVar == [type |-> None, rank |-> 0, kind |-> None]
get_variable(nds, tr, name) ==
    LET curr == tr.curr
        v == tr.variables
        pu == program_unit(curr)
        own == <<get_scope_key(nds, curr), Lower(name)>>
        par == <<<<nds[pu].name, nds[curr.parent_routine].name>>, Lower(name)>>
        mod == <<<<nds[pu].name>>, Lower(name)>>
    IN  IF curr.routine # NoNode /\ own \in DOMAIN v THEN v[own]
        ELSE IF curr.routine # NoNode /\ curr.parent_routine # NoNode
                /\ par \in DOMAIN v THEN v[par]
        ELSE IF pu # NoNode /\ mod \in DOMAIN v THEN v[mod]
        ELSE NoVar

\* ParseTree._resolve_binding_name: err is the AttributeError that reading
\* dt.bindings raises on the first registered derived type of that name, a
\* DerivedType having no such attribute; otherwise (binding_name, None)
ResolveBindingName(c, binding_name, type_name) ==
    IF \E k \in DOMAIN c.store["DerivedType"] :
          Lower(c.nodes[c.store["DerivedType"][k]].name) = Lower(type_name)
    THEN [err |-> TRUE, name |-> binding_name, scope |-> NoNode]
    ELSE [err |-> FALSE, name |-> binding_name, scope |-> NoNode]

\* The callee name and defining scope the call recognizers derive from a
\* ProcComponentRef designator
ResolveDesignator(c, ln) ==
    LET var_info == IF ln.object # None
                    THEN get_variable(c.nodes, c.tree, ln.object) ELSE NoVar
    IN  IF StartsWithDerived(var_info.type)
        THEN ResolveBindingName(c, ln.name, DerivedName(var_info.type))
        ELSE [err |-> FALSE, name |-> ln.name, scope |-> NoNode]

\* ParseTree.parse_subroutine_call_stmt
ParseSubroutineCallStmt(c, ln) ==
    IF program_unit(c.tree.curr) = NoNode
    THEN Raise(c, "AssertionError: CallStmt found outside of a program unit")
    ELSE IF IsComponentRef(ln)
    THEN IF ResolveDesignator(c, ln).err
         THEN Raise(c, "AttributeError: 'DerivedType' object has no attribute 'bindings'")
         ELSE RecordCallDependencies(c, ResolveDesignator(c, ln).name, CallOf(ln),
                                     FALSE, ResolveDesignator(c, ln).scope)
    ELSE RecordCallDependencies(c, ln.name, CallOf(ln), FALSE, NoNode)

\* A function reference recognizer that hands every name on to recording.
ParseFunctionCallStmtNoFilter(c, ln) ==
    IF program_unit(c.tree.curr) = NoNode
    THEN Raise(c, "AssertionError: FunctionReference found outside of a program unit")
    ELSE IF IsComponentRef(ln)
    THEN IF ResolveDesignator(c, ln).err
         THEN Raise(c, "AttributeError: 'DerivedType' object has no attribute 'bindings'")
         ELSE RecordCallDependencies(c, ResolveDesignator(c, ln).name, CallOf(ln),
                                     TRUE, ResolveDesignator(c, ln).scope)
    ELSE RecordCallDependencies(c, ln.name, CallOf(ln), TRUE, NoNode)

\* ParseTree.parse_function_call_stmt
ParseFunctionCallStmt(c, ln) ==
    IF program_unit(c.tree.curr) = NoNode
    THEN Raise(c, "AssertionError: FunctionReference found outside of a program unit")
    ELSE IF IsComponentRef(ln)
    THEN IF ResolveDesignator(c, ln).err
         THEN Raise(c, "AttributeError: 'DerivedType' object has no attribute 'bindings'")
         ELSE IF is_fortran_intrinsic(ResolveDesignator(c, ln).name) THEN c
         ELSE RecordCallDependencies(c, ResolveDesignator(c, ln).name, CallOf(ln),
                                     TRUE, ResolveDesignator(c, ln).scope)
    ELSE IF is_fortran_intrinsic(ln.name) THEN c
    ELSE RecordCallDependencies(c, ln.name, CallOf(ln), TRUE, NoNode)

\* ------------------------------------------------------------------------
\* Input: dump files
\* ------------------------------------------------------------------------

Header == [t |-> "Header"]                  \* a line starting with "======"
Text == [t |-> "Text"]                      \* a line no recognizer looks for
ProgramUnitLine(form, name) == [t |-> "ProgramUnit", form |-> form, name |-> name]
ModuleStmt(name) == [t |-> "ModuleStmt", name |-> name]
EndModuleStmt(name) == [t |-> "EndModuleStmt", name |-> name]
Decl(name, type, rank, kind, optional) ==
    [name |-> name, type |-> type, rank |-> rank, kind |-> kind,
     optional |-> optional]
SubroutineStmt(name, args, spec, decls) ==
    [t |-> "SubroutineStmt", name |-> name, args |-> args, spec |-> spec,
     decls |-> decls]
FunctionStmt(name, args, spec, decls) ==
    [t |-> "FunctionStmt", name |-> name, args |-> args, spec |-> spec,
     decls |-> decls]
EndSubroutineStmt(name) == [t |-> "EndSubroutineStmt", name |-> name]
EndFunctionStmt(name) == [t |-> "EndFunctionStmt", name |-> name]
UseStmt(name) == [t |-> "UseStmt", name |-> name]
Only(name) == [t |-> "Only", alias |-> None, name |-> name]
OnlyRename(alias, name) == [t |-> "Only", alias |-> alias, name |-> name]
Rename(alias, name) == [t |-> "Rename", alias |-> alias, name |-> name]
\* The DerivedTypeDef production with its DerivedTypeStmt, TypeAttrSpec and
\* Name lines; extends is None without an Extends attribute
DerivedTypeDef(name, extends) ==
    [t |-> "DerivedTypeDef", name |-> name, extends |-> extends]
EndTypeStmt(name) == [t |-> "EndTypeStmt", name |-> name]
\* A TypeDeclarationStmt production outside the SpecificationPart of a routine
\* (of a module, a main program or a BLOCK construct), with its entities
TypeDeclarationStmt(decls) == [t |-> "TypeDeclarationStmt", decls |-> decls]
ModuleProcedure(name) == [kind |-> "ModuleProcedure", name |-> name]
InterfaceStmt(name, procs) ==
    [t |-> "InterfaceStmt", form |-> "Name", name |-> name, procs |-> procs]
Arg(type, rank, kind, name) ==
    [type |-> type, rank |-> rank, kind |-> kind, name |-> name]
\* An actual argument that is the function reference ref(x): the types of
\* _infer_arg_type for it, ref being no variable.  (The argument lines of a
\* reference that the intrinsic filter drops stay in the stream: a function
\* reference among them is written as a line of its own.)
ArgRef(ref) ==
    [type |-> "unknown", rank |-> -1, kind |-> None, name |-> None, ref |-> ref]
CallStmt(name, cargs) == [t |-> "CallStmt", name |-> name, cargs |-> cargs]
\* A call statement whose last argument is the line "ActualArg -> Expr ->
\* FunctionReference -> Call" with no line below it, the dump being cut there
CallStmtCut(name, cargs) ==
    [t |-> "CallStmt", name |-> name, cargs |-> cargs, cut |-> TRUE]
\* call object%name(cargs) and object%name(cargs) in an expression
ComponentCallStmt(object, name, cargs) ==
    [t |-> "CallStmt", object |-> object, name |-> name, cargs |-> cargs]
ComponentFunctionReference(object, name, cargs) ==
    [t |-> "FunctionReference", object |-> object, name |-> name, cargs |-> cargs]
\* procedure :: name => impl in a derived type; impl is name without "=>"
TypeBoundProcBinding(name, impl) ==
    [t |-> "TypeBoundProcBinding", name |-> name, impl |-> impl]
FunctionReference(name, cargs) ==
    [t |-> "FunctionReference", name |-> name, cargs |-> cargs]

\* A module with a generic interface over two subroutines, a function, and
\* a generic interface over three subroutines that differ in rank only
FileLib ==
    [stem |-> "lib", lines |-> <<
        Header,
        ProgramUnitLine("Module", None),
        ModuleStmt("m1"),
        InterfaceStmt("gen", <<ModuleProcedure("s_int"), ModuleProcedure("s_chr")>>),
        SubroutineStmt("s_int", <<"a", "B">>, TRUE,
                       <<Decl("a", "integer", 0, None, FALSE),
                         Decl("B", "integer", 1, "k8", TRUE)>>),
        EndSubroutineStmt("s_int"),
        SubroutineStmt("s_chr", <<"a">>, TRUE,
                       <<Decl("a", "character", 0, None, FALSE)>>),
        EndSubroutineStmt(None),
        FunctionStmt("f1", <<"x">>, FALSE, <<>>),
        EndFunctionStmt("f1"),
        InterfaceStmt("rk", <<ModuleProcedure("r1"), ModuleProcedure("r2"),
                              ModuleProcedure("rx")>>),
        SubroutineStmt("r1", <<"v">>, TRUE, <<Decl("v", "real", 1, None, FALSE)>>),
        EndSubroutineStmt("r1"),
        SubroutineStmt("r2", <<"v">>, TRUE, <<Decl("v", "real", 2, None, FALSE)>>),
        EndSubroutineStmt("r2"),
        SubroutineStmt("rx", <<"v">>, TRUE, <<Decl("v", "real", -1, None, FALSE)>>),
        EndSubroutineStmt("rx"),
        EndModuleStmt("m1") >>]

\* A module that uses m1 and calls into it, with a derived type and a
\* nested routine
FileApp ==
    [stem |-> "app", lines |-> <<
        Header,
        ProgramUnitLine("Module", None),
        ModuleStmt("m2"),
        UseStmt("m1"),
        Text,
        DerivedTypeDef("t2", "t1"),
        EndTypeStmt("t2"),
        SubroutineStmt("run", <<>>, FALSE, <<>>),
        CallStmt("gen", <<Arg("integer", 0, None, None)>>),
        CallStmt("gen", <<Arg("logical", 0, None, None)>>),
        CallStmt("MPI_Send", <<>>),
        CallStmt("nosuch", <<>>),
        FunctionReference("MPI_Wtime", <<>>),
        FunctionReference("Abs", <<Arg("real", 0, None, None)>>),
        FunctionReference("f1", <<Arg("real", 0, None, None)>>),
        SubroutineStmt("inner", <<>>, FALSE, <<>>),
        CallStmt("s_chr", <<Arg("character", 0, None, "A")>>),
        CallStmt("run", <<>>),
        CallStmt("rk", <<Arg("real", 1, None, None)>>),
        EndSubroutineStmt("inner"),
        EndSubroutineStmt("run"),
        EndModuleStmt(None) >>]

\* A main program that calls the generic from program scope
FileMain ==
    [stem |-> "main", lines |-> <<
        Header,
        ProgramUnitLine("MainProgram", "main"),
        UseStmt("m1"),
        Text,
        CallStmt("gen", <<Arg("unknown", -1, None, None)>>),
        CallStmt("rk", <<Arg("numeric", 2, None, None)>>),
        CallStmt("rk", <<Arg("real", 3, None, None)>>),
        CallStmt("rk", <<Arg("logical", 1, None, None)>>),
        FunctionReference("missing_fn", <<>>) >>]

\* A file of one bare subroutine, which declares its dummy argument n real
\* and, in a BLOCK construct, a local n integer and a local C
FileSubprogram ==
    [stem |-> "solo", lines |-> <<
        Header,
        ProgramUnitLine("SubroutineSubprogram", None),
        SubroutineStmt("solo_sub", <<"n">>, TRUE,
                       <<Decl("n", "real", 0, None, FALSE)>>),
        TypeDeclarationStmt(<<Decl("n", "integer", 0, None, FALSE),
                              Decl("C", "real", 1, "r8_kind", FALSE)>>),
        CallStmt("solo_sub", <<Arg("integer", 0, None, None)>>),
        EndSubroutineStmt("solo_sub") >>]

\* A dump whose first line is not the header banner
FileNoHeader ==
    [stem |-> "nohdr", lines |-> <<
        Text,
        ProgramUnitLine("Module", None),
        ModuleStmt("m3"),
        SubroutineStmt("orphan", <<>>, FALSE, <<>>),
        CallStmt("orphan", <<>>),
        FunctionReference("MPI_Wtime", <<>>),
        EndSubroutineStmt("orphan"),
        EndModuleStmt("m3") >>]

\* A dump that closes a routine it never opened: fatal in every pass
FileBadEnd ==
    [stem |-> "badend", lines |-> <<
        Header,
        ProgramUnitLine("Module", None),
        ModuleStmt("m4"),
        SubroutineStmt("s4", <<>>, FALSE, <<>>),
        EndSubroutineStmt("s4"),
        EndSubroutineStmt("s4"),
        EndModuleStmt("m4") >>]

\* A dump whose interface names a procedure nobody defines: fatal in the
\* interface pass
FileGhost ==
    [stem |-> "ghost", lines |-> <<
        Header,
        ProgramUnitLine("Module", None),
        ModuleStmt("m5"),
        SubroutineStmt("s5", <<>>, FALSE, <<>>),
        EndSubroutineStmt(None),
        InterfaceStmt("g5", <<ModuleProcedure("s5"), ModuleProcedure("nobody")>>),
        EndModuleStmt("m5") >>]

\* A dump with a call statement outside any program unit: fatal in the call
\* pass
FileStray ==
    [stem |-> "stray", lines |-> <<
        Header,
        CallStmt("s_int", <<>>) >>]

\* Two modules of one dump that import the name x from each other through
\* only-lists, neither defining it, and a caller of x: fatal in the call pass
FileCycle ==
    [stem |-> "cycle", lines |-> <<
        Header,
        ProgramUnitLine("Module", None),
        ModuleStmt("ma"),
        UseStmt("mb"),
        Only("x"),
        SubroutineStmt("go", <<>>, FALSE, <<>>),
        CallStmt("x", <<>>),
        EndSubroutineStmt("go"),
        EndModuleStmt("ma"),
        ProgramUnitLine("Module", None),
        ModuleStmt("mb"),
        UseStmt("ma"),
        Only("x"),
        EndModuleStmt("mb") >>]

\* A dump of five modules: a supplier u0 and four that import from it with
\* plain, only and rename forms of the use statement in different orders
FileUses ==
    [stem |-> "uses", lines |-> <<
        Header,
        ProgramUnitLine("Module", None),
        ModuleStmt("u0"),
        SubroutineStmt("p", <<>>, FALSE, <<>>),
        EndSubroutineStmt("p"),
        FunctionStmt("q", <<>>, FALSE, <<>>),
        EndFunctionStmt("q"),
        EndModuleStmt("u0"),
        ProgramUnitLine("Module", None),
        ModuleStmt("ua"),
        UseStmt("u0"),
        Only("q"),
        OnlyRename("z", "p"),
        UseStmt("u0"),
        Text,
        SubroutineStmt("sa", <<>>, FALSE, <<>>),
        CallStmt("z", <<>>),
        EndSubroutineStmt("sa"),
        EndModuleStmt("ua"),
        ProgramUnitLine("Module", None),
        ModuleStmt("ub"),
        UseStmt("u0"),
        Text,
        UseStmt("u0"),
        Only("p"),
        EndModuleStmt("ub"),
        ProgramUnitLine("Module", None),
        ModuleStmt("uc"),
        UseStmt("u0"),
        Rename("y", "p"),
        Rename("w", "q"),
        Text,
        SubroutineStmt("sc", <<>>, FALSE, <<>>),
        CallStmt("y", <<>>),
        FunctionReference("w", <<>>),
        EndSubroutineStmt("sc"),
        EndModuleStmt("uc"),
        ProgramUnitLine("Module", None),
        ModuleStmt("ud"),
        UseStmt("ux"),
        Only("p"),
        UseStmt("u0"),
        Text,
        SubroutineStmt("sd", <<>>, FALSE, <<>>),
        CallStmt("p", <<>>),
        EndSubroutineStmt("sd"),
        EndModuleStmt("ud") >>]

\* A module with a derived type that binds a procedure
FileBound ==
    [stem |-> "bound", lines |-> <<
        Header, ProgramUnitLine("Module", None), ModuleStmt("mt"),
        DerivedTypeDef("t1", None),
        TypeBoundProcBinding("reset", "reset_impl"),
        EndTypeStmt("t1"),
        SubroutineStmt("reset_impl", <<>>, FALSE, <<>>),
        EndSubroutineStmt("reset_impl"), EndModuleStmt("mt") >>]

Catalog == {FileLib, FileApp, FileMain, FileSubprogram, FileNoHeader,
            FileBadEnd, FileGhost, FileStray, FileCycle, FileUses, FileBound}

\* Dumps that no compiler writes: a routine begun at a second level of
\* nesting, closing statements without an open construct, and closing
\* statements that name another construct than the one they close
Malformed == {
    [stem |-> "deep", lines |-> <<
        Header, ProgramUnitLine("Module", None), ModuleStmt("md"),
        SubroutineStmt("outer", <<>>, FALSE, <<>>),
        FunctionStmt("mid", <<>>, FALSE, <<>>),
        SubroutineStmt("deep", <<>>, FALSE, <<>>),
        EndSubroutineStmt("deep"), EndFunctionStmt("mid"),
        EndSubroutineStmt("outer"), EndModuleStmt("md") >>],
    [stem |-> "endfn", lines |-> <<
        Header, ProgramUnitLine("Module", None), ModuleStmt("me"),
        SubroutineStmt("s", <<>>, FALSE, <<>>),
        EndFunctionStmt(None), EndModuleStmt("me") >>],
    [stem |-> "endsub", lines |-> <<
        Header, ProgramUnitLine("Module", None), ModuleStmt("me"),
        FunctionStmt("f", <<>>, FALSE, <<>>),
        EndSubroutineStmt(None), EndModuleStmt("me") >>],
    [stem |-> "endmod", lines |-> <<
        Header, ProgramUnitLine("MainProgram", "pe"),
        SubroutineStmt("s", <<>>, FALSE, <<>>),
        EndModuleStmt(None) >>],
    [stem |-> "endtype", lines |-> <<
        Header, ProgramUnitLine("Module", None), ModuleStmt("me"),
        DerivedTypeDef("t", None), EndTypeStmt("t"),
        EndTypeStmt(None), EndModuleStmt("me") >>],
    [stem |-> "namefn", lines |-> <<
        Header, ProgramUnitLine("Module", None), ModuleStmt("mn"),
        FunctionStmt("f", <<>>, FALSE, <<>>),
        EndFunctionStmt("g"), EndModuleStmt("mn") >>],
    [stem |-> "namesub", lines |-> <<
        Header, ProgramUnitLine("Module", None), ModuleStmt("mn"),
        SubroutineStmt("outer", <<>>, FALSE, <<>>),
        SubroutineStmt("s", <<>>, FALSE, <<>>),
        EndSubroutineStmt("outer"), EndModuleStmt("mn") >>],
    [stem |-> "namemod", lines |-> <<
        Header, ProgramUnitLine("Module", None), ModuleStmt("mn"),
        EndModuleStmt("m1") >>],
    [stem |-> "nametype", lines |-> <<
        Header, ProgramUnitLine("Module", None), ModuleStmt("mn"),
        DerivedTypeDef("t", None),
        EndTypeStmt("u"), EndModuleStmt("mn") >>] }

\* Dumps with calls through components: a type without bindings and calls
\* through objects of that type, declared in the routine and in an enclosing
\* routine, and through an object the module declares, whose type name the
\* declaration recognizer does not pick up; and calls through an object
\* whose type no dump defines and through an undeclared object
TypeBound == {
    [stem |-> "comp", lines |-> <<
        Header, ProgramUnitLine("Module", None), ModuleStmt("mc"),
        TypeBoundProcBinding("stray", "stray"),
        DerivedTypeDef("t2", None),
        TypeDeclarationStmt(<<Decl("hidden", "real", 0, None, FALSE)>>),
        EndTypeStmt("t2"),
        TypeDeclarationStmt(<<Decl("gobj", "derived", 0, None, FALSE)>>),
        SubroutineStmt("hook", <<>>, FALSE, <<>>),
        EndSubroutineStmt("hook"),
        SubroutineStmt("work", <<"B", "obj">>, TRUE,
                       <<Decl("B", "integer", 0, None, FALSE),
                         Decl("obj", "derived:t2", 0, None, FALSE)>>),
        ComponentCallStmt("B", "hook", <<>>),
        ComponentCallStmt("gobj", "hook", <<>>),
        ComponentCallStmt("obj", "hook", <<>>),
        EndSubroutineStmt("work"), EndModuleStmt("mc") >>],
    [stem |-> "compfn", lines |-> <<
        Header, ProgramUnitLine("Module", None), ModuleStmt("mf"),
        DerivedTypeDef("t2", None), EndTypeStmt("t2"),
        FunctionStmt("probe", <<>>, FALSE, <<>>),
        EndFunctionStmt("probe"),
        SubroutineStmt("outer", <<"o">>, TRUE,
                       <<Decl("o", "derived:t2", 0, None, FALSE)>>),
        SubroutineStmt("inner", <<>>, FALSE, <<>>),
        ComponentFunctionReference("o", "probe", <<>>),
        EndSubroutineStmt("inner"),
        EndSubroutineStmt("outer"), EndModuleStmt("mf") >>],
    [stem |-> "loose", lines |-> <<
        Header, ProgramUnitLine("Module", None), ModuleStmt("ml"),
        SubroutineStmt("hook", <<>>, FALSE, <<>>),
        EndSubroutineStmt("hook"),
        SubroutineStmt("work", <<"far">>, TRUE,
                       <<Decl("far", "derived:t1", 0, None, FALSE)>>),
        ComponentCallStmt("far", "hook", <<>>),
        ComponentCallStmt("ghost", "nohook", <<>>),
        ComponentFunctionReference("ghost", "Abs", <<>>),
        ComponentFunctionReference(None, "probe", <<>>),
        EndSubroutineStmt("work"), EndModuleStmt("ml") >>] }

\* Two modules in one dump, each with a routine init that declares a type
\* cfg and contains a routine helper; the first has an interface as well
FileTwins ==
    [stem |-> "twins", lines |-> <<
        Header, ProgramUnitLine("Module", None), ModuleStmt("ma"),
        InterfaceStmt("both", <<ModuleProcedure("init")>>),
        SubroutineStmt("init", <<>>, TRUE, <<>>),
        DerivedTypeDef("cfg", None), EndTypeStmt("cfg"),
        SubroutineStmt("helper", <<>>, FALSE, <<>>),
        EndSubroutineStmt("helper"),
        EndSubroutineStmt("init"), EndModuleStmt("ma"),
        ProgramUnitLine("Module", None), ModuleStmt("mb"),
        SubroutineStmt("init", <<>>, TRUE, <<>>),
        DerivedTypeDef("cfg", None), EndTypeStmt("cfg"),
        SubroutineStmt("helper", <<>>, FALSE, <<>>),
        EndSubroutineStmt("helper"),
        EndSubroutineStmt("init"), EndModuleStmt("mb") >>]

\* A supplier module u0 and a module whose routines, one of them nested,
\* import from it on their own, the module itself importing nothing
FileRoutineUse ==
    [stem |-> "ruse", lines |-> <<
        Header, ProgramUnitLine("Module", None), ModuleStmt("u0"),
        SubroutineStmt("p", <<>>, FALSE, <<>>), EndSubroutineStmt("p"),
        SubroutineStmt("q", <<>>, FALSE, <<>>), EndSubroutineStmt("q"),
        EndModuleStmt("u0"),
        ProgramUnitLine("Module", None), ModuleStmt("mr"), Text,
        SubroutineStmt("s1", <<>>, TRUE, <<>>),
        UseStmt("u0"), Text,
        CallStmt("p", <<>>),
        EndSubroutineStmt("s1"),
        SubroutineStmt("s2", <<>>, TRUE, <<>>),
        UseStmt("u0"), Only("p"), Text,
        CallStmt("p", <<>>),
        EndSubroutineStmt("s2"),
        SubroutineStmt("s3", <<>>, TRUE, <<>>),
        UseStmt("u0"), Rename("z", "p"), Text,
        CallStmt("z", <<>>),
        EndSubroutineStmt("s3"),
        SubroutineStmt("s4", <<>>, FALSE, <<>>),
        SubroutineStmt("inner", <<>>, TRUE, <<>>),
        UseStmt("u0"), Only("q"), Text,
        CallStmt("q", <<>>),
        EndSubroutineStmt("inner"),
        EndSubroutineStmt("s4"),
        EndModuleStmt("mr") >>]

\* A module whose routines call with function references as actual arguments:
\* call f(g(x)), h(g(x)), abs(g(x)) and call f(nowhere(x))
FileNested ==
    [stem |-> "nest", lines |-> <<
        Header, ProgramUnitLine("Module", None), ModuleStmt("mn"), Text,
        SubroutineStmt("f", <<>>, FALSE, <<>>), EndSubroutineStmt("f"),
        FunctionStmt("g", <<>>, FALSE, <<>>), EndFunctionStmt("g"),
        FunctionStmt("h", <<>>, FALSE, <<>>), EndFunctionStmt("h"),
        SubroutineStmt("c1", <<>>, FALSE, <<>>),
        CallStmt("f", <<ArgRef("g")>>),
        EndSubroutineStmt("c1"),
        SubroutineStmt("c2", <<>>, FALSE, <<>>),
        FunctionReference("h", <<Arg("real", 0, None, None), ArgRef("g")>>),
        EndSubroutineStmt("c2"),
        SubroutineStmt("c3", <<>>, FALSE, <<>>),
        FunctionReference("Abs", <<>>), FunctionReference("g", <<>>),
        EndSubroutineStmt("c3"),
        SubroutineStmt("c4", <<>>, FALSE, <<>>),
        CallStmt("f", <<ArgRef("nowhere")>>),
        EndSubroutineStmt("c4"),
        EndModuleStmt("mn") >>]

\* A dump cut inside the argument of a call statement: module mt with the
\* subroutine f, the function g and the caller c1 of f(g(x)), the lines below
\* the reference to g missing
FileCut ==
    [stem |-> "cut", lines |-> <<
        Header, ProgramUnitLine("Module", None), ModuleStmt("mt"), Text,
        SubroutineStmt("f", <<>>, FALSE, <<>>), EndSubroutineStmt("f"),
        FunctionStmt("g", <<>>, FALSE, <<>>), EndFunctionStmt("g"),
        SubroutineStmt("c1", <<>>, FALSE, <<>>),
        CallStmtCut("f", <<Arg("unknown", -1, None, None)>>),
        EndSubroutineStmt("c1"),
        EndModuleStmt("mt") >>]

\* The dump foo of a module foo, which declares x integer and contains f,
\* followed by the external subroutine bar, which calls f(x) and declares
\* nothing; the actual argument is as _infer_arg_type types it from what
\* get_variable('x') returns in bar
FileShared ==
    [stem |-> "foo", lines |-> <<
        Header, ProgramUnitLine("Module", None), ModuleStmt("foo"),
        TypeDeclarationStmt(<<Decl("x", "integer", 0, None, FALSE)>>),
        SubroutineStmt("f", <<>>, FALSE, <<>>), EndSubroutineStmt("f"),
        EndModuleStmt("foo"),
        ProgramUnitLine("SubroutineSubprogram", None),
        SubroutineStmt("bar", <<>>, FALSE, <<>>),
        CallStmt("f", <<Arg("integer", 0, None, None)>>),
        EndSubroutineStmt("bar") >>]

\* The runs over one dump, well-formed or not, and over the library dump
\* followed by a malformed one
ScopeRuns ==
    {<<f>> : f \in Catalog \cup Malformed \cup TypeBound
                   \cup {FileTwins, FileRoutineUse, FileNested,
                         FileCut, FileShared}}
    \cup {<<FileLib, f>> : f \in Malformed}

\* path.open(): the lines of the i-th input file
File(i) == paths[i].lines

\* first.startswith("======")
HasHeader(i) == File(i)[1] = Header

\* ------------------------------------------------------------------------
\* parse_forest.py and the pass loops of parse_tree.py
\* ------------------------------------------------------------------------

Passes == {"structure", "interfaces", "calls"}

\* The recognizers each pass tries, as the line kinds they take
Recognized(pass) ==
    CASE pass = "structure" ->
            {"SubroutineStmt", "FunctionStmt", "EndSubroutineStmt",
             "EndFunctionStmt", "Only", "Rename", "UseStmt", "DerivedTypeDef",
             "TypeBoundProcBinding", "EndTypeStmt", "TypeDeclarationStmt",
             "ModuleStmt",
             "EndModuleStmt", "ProgramUnit"}
      [] pass = "interfaces" ->
            {"SubroutineStmt", "FunctionStmt", "EndSubroutineStmt",
             "EndFunctionStmt", "DerivedTypeDef", "TypeBoundProcBinding",
             "EndTypeStmt", "ModuleStmt", "EndModuleStmt", "ProgramUnit",
             "InterfaceStmt"}
      [] pass = "calls" ->
            {"SubroutineStmt", "FunctionStmt", "EndSubroutineStmt",
             "EndFunctionStmt", "DerivedTypeDef", "EndTypeStmt", "ModuleStmt",
             "EndModuleStmt", "ProgramUnit", "CallStmt", "FunctionReference"}
      [] OTHER -> {}

\* The pass the orchestrator is running
Running == IF phase = "init" THEN "structure" ELSE phase

\* An orchestrator that takes each file through the interface pass and the
\* call pass before it turns to the next file.
AfterPassPerFile(ph, i, n) ==
    IF ph = "init"
    THEN IF i < n THEN [phase |-> "init", idx |-> i + 1]
         ELSE [phase |-> "ready", idx |-> 1]
    ELSE IF ph = "interfaces" THEN [phase |-> "calls", idx |-> i]
    ELSE IF i < n THEN [phase |-> "interfaces", idx |-> i + 1]
    ELSE [phase |-> "ready", idx |-> 1]

\* The three for-loops of ParseForest.__init__ and get_call_graph: where the
\* orchestrator goes when the pass on the i-th of n files has returned
AfterPass(ph, i, n) ==
    IF i < n THEN [phase |-> ph, idx |-> i + 1]
    ELSE IF ph = "interfaces" THEN [phase |-> "calls", idx |-> 1]
    ELSE [phase |-> "ready", idx |-> 1]

\* An orchestrator that catches the exception of a pass and turns to the next
\* file.
AfterErrorNextFile(ph, i, n) == AfterPass(ph, i, n)

\* The same loops when the pass on the i-th of n files has raised: nothing
\* catches the exception, which leaves ParseForest.__init__ (no forest
\* exists) or get_call_graph (the forest is as before the call)
AfterError(ph, i, n) ==
    [phase |-> IF ph = "init" THEN "failed" ELSE "ready", idx |-> i]

\* ParseTree.parse_header: reads the first line; ok is what it returns
ParseHeader(tr, f) ==
    LET nl == NextLine(tr, f)
    IN  [tree |-> nl.tree, ok |-> nl.tree.line = Header]

Init ==
    /\ paths \in UNION {[1..n -> Catalog] : n \in 1..MaxFiles}
    /\ store = EmptyStore
    /\ nodes = <<>>
    /\ trees = <<>>
    /\ tree = NewParseTree(0)
    /\ phase = "init"
    /\ idx = 1
    /\ tpc = "none"
    /\ exc = ""
    /\ unfound_subroutine_calls = <<>>
    /\ unfound_function_calls = <<>>
    /\ lastReq = NoReq
    /\ completed = [p \in Passes |-> {}]
    /\ graphCalls = 0
    /\ ret = <<>>
    /\ m = <<>>

\* ParseForest.__init__ on one of the runs of ScopeRuns
ScopesInit ==
    /\ paths \in ScopeRuns
    /\ store = EmptyStore
    /\ nodes = <<>>
    /\ trees = <<>>
    /\ tree = NewParseTree(0)
    /\ phase = "init"
    /\ idx = 1
    /\ tpc = "none"
    /\ exc = ""
    /\ unfound_subroutine_calls = <<>>
    /\ unfound_function_calls = <<>>
    /\ lastReq = NoReq
    /\ completed = [p \in Passes |-> {}]
    /\ graphCalls = 0
    /\ ret = <<>>
    /\ m = <<>>

\* ParseForest.__init__, one turn of the loop: ParseTree(path, registry) and
\* the entry of parse_structure up to its for-loop
BeginStructure ==
    /\ phase = "init" /\ tpc = "none"
    /\ tree' = ParseHeader(NewParseTree(idx), File(idx)).tree
    /\ tpc' = "loop"
    /\ lastReq' = NoReq
    /\ UNCHANGED <<paths, store, nodes, trees, phase, idx, exc,
                   unfound_subroutine_calls, unfound_function_calls,
                   completed, graphCalls, ret, m>>

\* A call of ParseForest.get_call_graph
GetCallGraph ==
    /\ phase = "ready" /\ tpc = "none"
    /\ graphCalls < MaxGraphCalls
    /\ graphCalls' = graphCalls + 1
    /\ phase' = "interfaces"
    /\ idx' = 1
    /\ exc' = ""
    /\ completed' = [completed EXCEPT !["interfaces"] = {}, !["calls"] = {}]
    /\ lastReq' = NoReq
    /\ UNCHANGED <<paths, store, nodes, trees, tree, tpc,
                   unfound_subroutine_calls, unfound_function_calls, ret, m>>

\* get_call_graph, one turn of the first loop: the entry of parse_interfaces
BeginInterfaces ==
    /\ phase = "interfaces" /\ tpc = "none"
    /\ tree' = ParseHeader(trees[idx], File(trees[idx].path)).tree
    /\ tpc' = "loop"
    /\ lastReq' = NoReq
    /\ UNCHANGED <<paths, store, nodes, trees, phase, idx, exc,
                   unfound_subroutine_calls, unfound_function_calls,
                   completed, graphCalls, ret, m>>

\* get_call_graph, one turn of the second loop: the entry of parse_calls
BeginCalls ==
    /\ phase = "calls" /\ tpc = "none"
    /\ tree' = ParseHeader(trees[idx], File(trees[idx].path)).tree
    /\ tpc' = "loop"
    /\ lastReq' = NoReq
    /\ UNCHANGED <<paths, store, nodes, trees, phase, idx, exc,
                   unfound_subroutine_calls, unfound_function_calls,
                   completed, graphCalls, ret, m>>

\* The context a recognizer starts from, the next line being current
Ctx(tr) == [store |-> store, nodes |-> nodes, tree |-> tr, exc |-> "",
            req |-> NoReq]

\* What one turn of the pass's for-loop leaves: back in the loop, or on the
\* way out through the finally block with the exception in flight
Commit(c) ==
    /\ store' = c.store
    /\ nodes' = c.nodes
    /\ tree' = c.tree
    /\ exc' = c.exc
    /\ lastReq' = c.req
    /\ tpc' = IF c.exc = "" THEN "loop" ELSE "finally"
    /\ UNCHANGED <<paths, trees, phase, idx, unfound_subroutine_calls,
                   unfound_function_calls, completed, graphCalls, ret, m>>

\* for self.line in self.lines(): the generator is exhausted
LoopEnd ==
    /\ tpc = "loop"
    /\ NextLine(tree, File(tree.path)).stop
    /\ tree' = NextLine(tree, File(tree.path)).tree
    /\ tpc' = "finally"
    /\ lastReq' = NoReq
    /\ UNCHANGED <<paths, store, nodes, trees, phase, idx, exc,
                   unfound_subroutine_calls, unfound_function_calls,
                   completed, graphCalls, ret, m>>

\* One turn of the loop on a line of kind in kinds that the pass recognizes
Turn(kinds) ==
    /\ tpc = "loop"
    /\ ~NextLine(tree, File(tree.path)).stop
    /\ NextLine(tree, File(tree.path)).tree.line.t \in kinds \cap Recognized(Running)

Cur == NextLine(tree, File(tree.path)).tree

\* A turn of the loop on a line none of the pass's recognizers takes
Unrecognized ==
    /\ tpc = "loop"
    /\ ~NextLine(tree, File(tree.path)).stop
    /\ Cur.line.t \notin Recognized(Running)
    /\ Commit(Ctx(Cur))

RoutineBegin ==
    /\ Turn({"SubroutineStmt", "FunctionStmt"})
    /\ Commit(ParseRoutineBegin(Ctx(Cur), Cur.line))

RoutineEnd ==
    /\ Turn({"EndSubroutineStmt", "EndFunctionStmt"})
    /\ Commit(ParseRoutineEnd(Ctx(Cur), Cur.line))

OnlyClause ==
    /\ Turn({"Only"})
    /\ Commit(ParseOnlyClause(Ctx(Cur), Cur.line))

RenameClause ==
    /\ Turn({"Rename"})
    /\ Commit(ParseRenameClause(Ctx(Cur), Cur.line, Cur.next_line))

Use ==
    /\ Turn({"UseStmt"})
    /\ Commit(ParseUseStmt(Ctx(Cur), Cur.line, Cur.next_line))

Module ==
    /\ Turn({"ModuleStmt"})
    /\ Commit(ParseModuleStmt(Ctx(Cur), Cur.line))

DerivedType ==
    /\ Turn({"DerivedTypeDef"})
    /\ Commit(ParseDerivedTypeStmt(Ctx(Cur), Cur.line))

EndDerivedType ==
    /\ Turn({"EndTypeStmt"})
    /\ Commit(ParseEndDerivedTypeStmt(Ctx(Cur), Cur.line))

TypeBoundBinding ==
    /\ Turn({"TypeBoundProcBinding"})
    /\ Commit(ParseTypeBoundProcBinding(Ctx(Cur), Cur.line))

VariableDeclaration ==
    /\ Turn({"TypeDeclarationStmt"})
    /\ Commit(ParseVariableDeclaration(Ctx(Cur), Cur.line))

EndModule ==
    /\ Turn({"EndModuleStmt"})
    /\ Commit(ParseEndModuleStmt(Ctx(Cur), Cur.line))

ProgramUnit ==
    /\ Turn({"ProgramUnit"})
    /\ Commit(ParseProgramUnit(Ctx(Cur), Cur.line, paths[tree.path].stem))

InterfaceBlock ==
    /\ Turn({"InterfaceStmt"})
    /\ Commit(ParseInterfaceStmt(Ctx(Cur), Cur.line).c)

\* The body of the loop of parse_calls on a CallStmt line.
\* parse_subroutine_call_stmt returns None after it has consumed the
\* statement, so the body goes on to parse_function_call_stmt with self.line
\* the last line consumed; that recognizer takes a line that contains
\* "FunctionReference -> Call", reads the line after it (StopIteration at the
\* end of the file) and asserts that it is a ProcedureDesignator
DispatchCallStmt(c, ln) ==
    LET c1 == ParseSubroutineCallStmt(c, ln)
        nl == NextLine(c1.tree, File(c1.tree.path))
    IN  IF c1.exc # "" \/ "cut" \notin DOMAIN ln THEN c1
        ELSE IF nl.stop THEN Raise(c1, "StopIteration")
        ELSE Raise([c1 EXCEPT !.tree = nl.tree],
                   "AssertionError: FunctionReference syntax not recognized")

SubroutineCall ==
    /\ Turn({"CallStmt"})
    /\ Commit(DispatchCallStmt(Ctx(Cur), Cur.line))

FunctionCall ==
    /\ Turn({"FunctionReference"})
    /\ Commit(ParseFunctionCallStmt(Ctx(Cur), Cur.line))

\* A return value that is the tree's list objects as reset leaves them, were
\* reset to empty them in place.
ParseCallsReturnCleared(before, after) ==
    <<after.unfound_subroutine_calls, after.unfound_function_calls>>

\* What the caller of parse_calls receives: the list objects bound to the
\* tree when the return statement ran; reset, in the finally block, binds
\* fresh lists to the tree and leaves those objects as they are
ParseCallsReturn(before, after) ==
    <<before.unfound_subroutine_calls, before.unfound_function_calls>>

\* The finally block of parse_structure / parse_interfaces / parse_calls and
\* the return to the orchestrator's loop, or the exception leaving
\* ParseForest.__init__ / get_call_graph
EndPass ==
    /\ tpc = "finally"
    /\ tpc' = "none"
    /\ tree' = Reset(tree)
    /\ lastReq' = NoReq
    /\ IF exc # ""
       THEN /\ phase' = AfterError(phase, idx, Len(paths)).phase
            /\ idx' = AfterError(phase, idx, Len(paths)).idx
            /\ trees' = IF phase = "init" THEN trees
                        ELSE [trees EXCEPT ![idx] = tree']
            /\ UNCHANGED <<completed, ret, unfound_subroutine_calls,
                           unfound_function_calls>>
       ELSE /\ phase' = AfterPass(phase, idx, Len(paths)).phase
            /\ idx' = AfterPass(phase, idx, Len(paths)).idx
            /\ trees' = IF phase = "init" THEN Append(trees, tree')
                        ELSE [trees EXCEPT ![idx] = tree']
            /\ completed' = [completed EXCEPT ![Running] = @ \cup {idx}]
            /\ ret' = IF phase = "calls"
                      THEN ParseCallsReturn(tree, tree')
                      ELSE ret
            /\ unfound_subroutine_calls' =
                  IF phase = "calls"
                  THEN unfound_subroutine_calls \o ret'[1]
                  ELSE IF phase' = "calls" THEN <<>>
                  ELSE unfound_subroutine_calls
            /\ unfound_function_calls' =
                  IF phase = "calls"
                  THEN unfound_function_calls \o ret'[2]
                  ELSE IF phase' = "calls" THEN <<>>
                  ELSE unfound_function_calls
    /\ UNCHANGED <<paths, store, nodes, exc, graphCalls, m>>

ForestNext ==
    \/ BeginStructure \/ GetCallGraph \/ BeginInterfaces \/ BeginCalls
    \/ LoopEnd \/ Unrecognized \/ RoutineBegin \/ RoutineEnd \/ Use
    \/ OnlyClause \/ RenameClause \/ DerivedType \/ EndDerivedType
    \/ TypeBoundBinding \/ VariableDeclaration
    \/ Module \/ EndModule \/ ProgramUnit \/ InterfaceBlock
    \/ SubroutineCall \/ FunctionCall \/ EndPass

Next == ForestNext

Spec == Init /\ [][Next]_vars

\* ------------------------------------------------------------------------
\* Claims about the registry, the passes and call recording (Spec)
\* ------------------------------------------------------------------------

\* The forest over the runs of ScopeRuns
SpecScopes == ScopesInit /\ [][Next]_vars

\* The sets a node accumulates over the passes
Accumulated(n) ==
    <<n.callees, n.callers, n.procedures, n.subroutines, n.functions,
      n.interfaces, n.derived_types>>

\* C1: a construct-or-fetch request for a (kind, key) the registry already
\* holds returns the object stored under it, constructs nothing and leaves
\* what that object has accumulated in place; no step removes or replaces an
\* entry of the registry or re-initialises an object.
C1_IdempotentInterning ==
    [][ /\ \A k \in Kinds : \A key \in DOMAIN store[k] :
              /\ key \in DOMAIN store'[k]
              /\ store'[k][key] = store[k][key]
        /\ Len(nodes') >= Len(nodes)
        /\ \A i \in DOMAIN nodes :
              /\ nodes'[i].kind = nodes[i].kind
              /\ nodes'[i].name = nodes[i].name
              /\ \A j \in 1..7 : Accumulated(nodes[i])[j] \subseteq
                                 Accumulated(nodes'[i])[j]
        /\ (lastReq'.id # NoNode /\ lastReq'.key \in DOMAIN store[lastReq'.kind])
              => /\ lastReq'.id = store[lastReq'.kind][lastReq'.key]
                 /\ ~lastReq'.created
                 /\ Len(nodes') = Len(nodes)
        /\ (lastReq'.id # NoNode /\ lastReq'.key \notin DOMAIN store[lastReq'.kind])
              => /\ lastReq'.created
                 /\ lastReq'.id = Len(nodes) + 1
                 /\ store'[lastReq'.kind][lastReq'.key] = lastReq'.id
      ]_vars

\* C1 witness: a callable that already has callers has just been fetched
\* again by a later routine-begin
C1_Witness ==
    /\ lastReq.id # NoNode
    /\ ~lastReq.created
    /\ lastReq.kind = "Subroutine"
    /\ nodes[lastReq.id].callers # {}
    /\ nodes[lastReq.id].callees # {}

\* C2: b is a callee of a exactly when a is a caller of b, for every pair of
\* nodes, in every state.
C2_BidirectionalEdges ==
    \A a \in DOMAIN nodes : \A b \in DOMAIN nodes :
        (b \in nodes[a].callees) <=> (a \in nodes[b].callers)

\* C2 witness: a caller with an edge to an interface, to a matched member of
\* it and to a plain callable outside it
C2_Witness ==
    \E a \in DOMAIN nodes : \E i \in nodes[a].callees :
        /\ nodes[i].kind = "Interface"
        /\ nodes[i].procedures \cap nodes[a].callees # {}
        /\ \E f \in nodes[a].callees :
              nodes[f].kind = "Function" /\ f \notin nodes[i].procedures

\* C3: while an interface pass runs the structure pass has returned for every
\* file, while a call pass runs the interface pass has returned for every file
\* (in this get_call_graph call), and the file a pass works on is the next one
\* in input order after the files the pass has returned for.
C3_PassOrdering ==
    tpc # "none" =>
        /\ phase = "interfaces" => completed["structure"] = 1..Len(paths)
        /\ phase = "calls" => /\ completed["structure"] = 1..Len(paths)
                              /\ completed["interfaces"] = 1..Len(paths)
        /\ completed[Running] = 1..(idx - 1)
        /\ tree.path = idx

\* C3 witness: the call pass is at work on the second file
C3_Witness ==
    phase = "calls" /\ tpc = "loop" /\ idx = 2 /\ tree.read > 2

\* C4: while a pass is in a file whose first line is not the header banner,
\* no line after the first is current, nothing is requested from the registry
\* and no error is in flight; and no unit is ever recorded as read from such
\* a file.
C4_HeaderGuard ==
    /\ (tpc # "none" /\ ~HasHeader(tree.path))
          => /\ tree.line = File(tree.path)[1]
             /\ lastReq = NoReq
             /\ exc = ""
    /\ \A i \in DOMAIN nodes :
          nodes[i].parse_tree_path # 0 => HasHeader(nodes[i].parse_tree_path)

\* A ParseTree in the state reset() leaves
Clean(tr) ==
    /\ tr.gen = "none"
    /\ tr.line = NoLine /\ tr.next_line = NoLine /\ tr.line_number = 0
    /\ tr.curr = FreshParseState
    /\ tr.unfound_subroutine_calls = <<>>
    /\ tr.unfound_function_calls = <<>>

\* C5: whenever no pass is running, every ParseTree, the one whose pass
\* returned or raised last included, is in the state reset() leaves; and a
\* pass that has just read its header has the file's first line current, line
\* number 1, a fresh ParseState and empty unresolved-call accumulators.
C5_ResetAfterPass ==
    /\ tpc = "none" => /\ Clean(tree)
                       /\ \A i \in DOMAIN trees : Clean(trees[i])
    /\ (tpc = "loop" /\ tree.gen = "started" /\ tree.read = 2)
          => /\ tree.line = File(tree.path)[1]
             /\ tree.next_line = File(tree.path)[2]
             /\ tree.line_number = 1
             /\ tree.curr = FreshParseState
             /\ tree.unfound_subroutine_calls = <<>>
             /\ tree.unfound_function_calls = <<>>

\* C5 witness: get_call_graph has just raised out of a pass that left a
\* module open, after an earlier get_call_graph call had raised too
C5_Witness ==
    /\ tpc = "none" /\ exc # "" /\ phase = "ready" /\ graphCalls = 2
    /\ Len(trees) = 2

\* The callee names of a list of (caller, callee) pairs
Callees(list) == {list[i][2] : i \in 1..Len(list)}

\* C6: no name with the MPI prefix is in an unresolved-calls list, per file
\* or run-wide, for subroutine-call sites and function-reference sites alike.
C6_MpiSuppressed ==
    \A name \in Callees(tree.unfound_subroutine_calls)
                \cup Callees(tree.unfound_function_calls)
                \cup Callees(unfound_subroutine_calls)
                \cup Callees(unfound_function_calls) :
        ~StartsWithMpi(name)

\* ------------------------------------------------------------------------
\* Overload matching on its own: one procedure signature and one call,
\* drawn from bounded sets (SpecMatch)
\* ------------------------------------------------------------------------
MaxArgs == 2         \* dummy arguments of a procedure; a call has up to one more

\* Dummy argument names by position, keywords a call may use
ArgNameSeq == <<"a", "B", "c", "d">>
Keywords == {"A", "b", "zz"}

\* (type, rank, kind) of a dummy argument as _parse_routine_signature
\* records it, and of an actual argument as parse_call_arguments infers it
DummySpecs == {<<"integer", 0, "4">>, <<"character", 1, "8">>,
               <<"unknown", -1, None>>}
ActualSpecs == {<<"integer", 0, "4">>, <<"integer", 1, "8">>,
                <<"unknown", -1, None>>}

SeqsUpTo(S, n) == UNION {[1..k -> S] : k \in 0..n}

\* A callable whose signature has not been parsed (num_args is None)
Unparsed == NewNode("Subroutine", "s", NoNode, NoNode)

\* A callable after _parse_routine_signature
Proc(specs, nreq) ==
    [Unparsed EXCEPT
        !.parsed = TRUE,
        !.arg_names = SubSeq(ArgNameSeq, 1, Len(specs)),
        !.arg_types = [i \in 1..Len(specs) |-> specs[i][1]],
        !.arg_ranks = [i \in 1..Len(specs) |-> specs[i][2]],
        !.arg_kinds = [i \in 1..Len(specs) |-> specs[i][3]],
        !.num_required_args = nreq]

MatchProcs ==
    {Unparsed} \cup
    {Proc(specs, nreq) : <<specs, nreq>> \in
        {x \in SeqsUpTo(DummySpecs, MaxArgs) \X (0..MaxArgs) :
            x[2] <= Len(x[1])}}

\* The four lists parse_call_arguments returns
Call(specs, names) ==
    [types |-> [i \in 1..Len(specs) |-> specs[i][1]],
     ranks |-> [i \in 1..Len(specs) |-> specs[i][2]],
     kinds |-> [i \in 1..Len(specs) |-> specs[i][3]],
     names |-> names]

\* Keyword lists of a compiled program: positional arguments first, no
\* keyword twice
KeywordLists(n) ==
    {names \in [1..n -> Keywords \cup {None}] :
        /\ \A i \in 1..n : \A j \in (i + 1)..n :
              names[i] # None => (names[j] # None /\ names[j] # names[i])}

MatchCalls ==
    UNION {{Call(specs, names) : specs \in [1..n -> ActualSpecs],
                                 names \in KeywordLists(n)} :
           n \in 0..(MaxArgs + 1)}

\* The other member of the interface, if there is one
Companions ==
    {Unparsed,
     Proc(<< <<"integer", 0, "4">> >>, 1),
     Proc(<< <<"character", 1, "8">>, <<"integer", 0, "4">> >>, 1)}

MatchInit ==
    /\ m \in {[stage |-> "input", proc |-> p, call |-> c, result |-> FALSE,
               procs |-> <<p>>, resolved |-> {}] :
              p \in MatchProcs, c \in MatchCalls}
    /\ paths = <<>>
    /\ store = EmptyStore
    /\ nodes = <<>>
    /\ trees = <<>>
    /\ tree = NewParseTree(0)
    /\ phase = "init"
    /\ idx = 0
    /\ tpc = "none"
    /\ exc = ""
    /\ unfound_subroutine_calls = <<>>
    /\ unfound_function_calls = <<>>
    /\ lastReq = NoReq
    /\ completed = [p \in Passes |-> {}]
    /\ graphCalls = 0
    /\ ret = <<>>

\* _procedure_matches(proc, *call)
Match ==
    /\ m.stage = "input"
    /\ m' = [m EXCEPT !.stage = "matched",
                      !.result = ProcedureMatches(m.proc, m.call)]
    /\ UNCHANGED fvars

\* resolve_interface_procedures on an interface of the procedure alone
ResolveSingle ==
    /\ m.stage = "matched"
    /\ m' = [m EXCEPT !.stage = "resolved",
                      !.resolved = ResolveInterfaceProcedures(m.procs, m.call)]
    /\ UNCHANGED fvars

\* resolve_interface_procedures on an interface of two members
ResolvePair ==
    /\ m.stage = "matched"
    /\ \E other \in Companions :
          LET procs == <<m.proc, other>>
          IN  m' = [m EXCEPT !.stage = "resolved",
                             !.procs = procs,
                             !.resolved =
                                 ResolveInterfaceProcedures(procs, m.call)]
    /\ UNCHANGED fvars

MatchNext == Match \/ ResolveSingle \/ ResolvePair

SpecMatch == MatchInit /\ [][MatchNext]_vars

\* ------------------------------------------------------------------------
\* Claims about overload matching (SpecMatch)
\* ------------------------------------------------------------------------

\* C7: the result of resolve_interface_procedures is exactly the set of
\* members that match when some member matches, the whole member set when no
\* member matches or no member has a parsed signature, and never empty.
C7_ResolveFallback ==
    m.stage = "resolved" =>
        LET members  == DOMAIN m.procs
            matching == {p \in members : ProcedureMatches(m.procs[p], m.call)}
        IN  /\ matching # {} => m.resolved = matching
            /\ matching = {} => m.resolved = members
            /\ (\A p \in members : ~m.procs[p].parsed) => m.resolved = members
            /\ m.resolved # {}

\* C7 witness: two members with parsed signatures, neither matches the call,
\* both are returned
C7_Witness ==
    /\ m.stage = "resolved"
    /\ Len(m.procs) = 2
    /\ \A p \in DOMAIN m.procs :
          m.procs[p].parsed /\ ~ProcedureMatches(m.procs[p], m.call)
    /\ m.resolved = {1, 2}

\* Every actual argument positional and unknown on all three axes
AllUnknown(call) ==
    \A i \in 1..Len(call.types) :
        /\ call.types[i] = "unknown" /\ call.ranks[i] = -1
        /\ call.kinds[i] = None /\ call.names[i] = None

\* C8: for a procedure with N dummy arguments of which R are required, a call
\* with fewer than R or more than N actual arguments does not match, and a
\* call with a count in [R, N] whose arguments are positional and unknown on
\* every axis (so that only the count can decide) matches.
C8_Arity ==
    (m.stage = "matched" /\ m.proc.parsed) =>
        LET n == Len(m.call.types)
            R == m.proc.num_required_args
            N == Len(m.proc.arg_types)
        IN  /\ (n < R \/ n > N) => ~m.result
            /\ (R <= n /\ n <= N /\ AllUnknown(m.call)) => m.result

\* C8 witness: one actual argument too many, all of them positional and
\* unknown, is rejected
C8_Witness ==
    /\ m.stage = "matched" /\ m.proc.parsed
    /\ Len(m.call.types) = Len(m.proc.arg_types) + 1
    /\ Len(m.proc.arg_types) > 0
    /\ AllUnknown(m.call)
    /\ ~m.result

\* The dummy argument an actual argument stands for: by position, or by the
\* lower-cased keyword
KeywordKnown(proc, call, i) ==
    \E j \in 1..Len(proc.arg_names) :
        Lower(proc.arg_names[j]) = Lower(call.names[i])
ParamOf(proc, call, i) ==
    IF call.names[i] = None THEN i
    ELSE CHOOSE j \in 1..Len(proc.arg_names) :
            Lower(proc.arg_names[j]) = Lower(call.names[i])

\* The call fills dummy arguments 1..n, each once, so that it can be written
\* without keywords
HasPositionalForm(proc, call) ==
    /\ \A i \in 1..Len(call.names) :
          call.names[i] # None => KeywordKnown(proc, call, i)
    /\ {ParamOf(proc, call, i) : i \in 1..Len(call.names)}
          = 1..Len(call.names)

\* The same call written without keywords
PositionalForm(proc, call) ==
    LET n == Len(call.names)
        at(j) == CHOOSE i \in 1..n : ParamOf(proc, call, i) = j
    IN  [types |-> [j \in 1..n |-> call.types[at(j)]],
         ranks |-> [j \in 1..n |-> call.ranks[at(j)]],
         kinds |-> [j \in 1..n |-> call.kinds[at(j)]],
         names |-> [j \in 1..n |-> None]]

\* C9: a call with keyword arguments, in whatever order, matches exactly when
\* the same call written positionally matches, keywords being compared with
\* the dummy argument names without regard to case; a call with a keyword
\* that is no dummy argument name of the procedure does not match.
C9_Keywords ==
    (m.stage = "matched" /\ m.proc.parsed) =>
        /\ (\E i \in 1..Len(m.call.names) :
               m.call.names[i] # None /\ ~KeywordKnown(m.proc, m.call, i))
              => ~m.result
        /\ HasPositionalForm(m.proc, m.call)
              => (m.result <=>
                    ProcedureMatches(m.proc, PositionalForm(m.proc, m.call)))

\* C9 witness: the call (b = ..., A = ...) matches a procedure (a, B) that
\* the same actual arguments taken in call order do not match
C9_Witness ==
    /\ m.stage = "matched" /\ m.proc.parsed /\ m.result
    /\ m.call.names = <<"b", "A">>
    /\ ~ProcedureMatches(m.proc, [m.call EXCEPT !.names = <<None, None>>])

\* The call with actual argument i unknown on one axis
WithUnknown(call, i, axis) ==
    CASE axis = "type" -> [call EXCEPT !.types[i] = "unknown"]
      [] axis = "rank" -> [call EXCEPT !.ranks[i] = -1]
      [] axis = "kind" -> [call EXCEPT !.kinds[i] = None]

\* The count and keyword checks of _procedure_matches pass
CountAndKeywordsPass(proc, call) ==
    /\ proc.num_required_args <= Len(call.types)
    /\ Len(call.types) <= Len(proc.arg_types)
    /\ \A i \in 1..Len(call.names) :
          call.names[i] # None => KeywordKnown(proc, call, i)

\* C10: when the count and keyword checks pass, a call whose actual arguments
\* are all unknown on every axis matches; an actual argument that is unknown
\* on an axis is compatible on that axis with whatever dummy argument it
\* stands for; and a call that matches still matches after any one actual
\* argument is made unknown on any one axis.
C10_UnknownPermissive ==
    (m.stage = "matched" /\ m.proc.parsed
        /\ CountAndKeywordsPass(m.proc, m.call)) =>
        LET n == Len(m.call.types)
            unknownAll(i) == /\ m.call.types[i] = "unknown"
                             /\ m.call.ranks[i] = -1
                             /\ m.call.kinds[i] = None
        IN  /\ (\A i \in 1..n : unknownAll(i)) => m.result
            /\ \A i \in 1..n :
                  LET j == ParamOf(m.proc, m.call, i)
                  IN  /\ m.call.types[i] = "unknown"
                         => TypesCompatible(m.call.types[i], m.proc.arg_types[j])
                      /\ m.call.ranks[i] = -1
                         => RanksCompatible(m.call.ranks[i], m.proc.arg_ranks[j])
                      /\ m.call.kinds[i] = None
                         => KindsCompatible(m.call.kinds[i], m.proc.arg_kinds[j])
            /\ \A i \in 1..n : \A axis \in {"type", "rank", "kind"} :
                  m.result => ProcedureMatches(m.proc,
                                               WithUnknown(m.call, i, axis))

\* C10 witness: a call rejected on the type of one actual argument, and
\* matched once that type is unknown
C10_Witness ==
    /\ m.stage = "matched" /\ m.proc.parsed /\ ~m.result
    /\ CountAndKeywordsPass(m.proc, m.call)
    /\ \E i \in 1..Len(m.call.types) :
          /\ m.call.types[i] # "unknown"
          /\ ProcedureMatches(m.proc, WithUnknown(m.call, i, "type"))

\* ------------------------------------------------------------------------
\* Type compatibility on its own: one pair of type names (SpecTypes)
\* ------------------------------------------------------------------------

\* The type names _extract_type_from_decl and _infer_expr_type give, with two
\* derived type names
TypeNames == {"unknown", "integer", "real", "numeric", "character", "logical",
              "complex", "class", "derived", "derived:t1", "derived:t2"}

TypesInit ==
    /\ m \in {[stage |-> "input", call_type |-> a, proc_type |-> b,
               result |-> FALSE, matches |-> FALSE] :
              a \in TypeNames, b \in TypeNames}
    /\ paths = <<>>
    /\ store = EmptyStore
    /\ nodes = <<>>
    /\ trees = <<>>
    /\ tree = NewParseTree(0)
    /\ phase = "init"
    /\ idx = 0
    /\ tpc = "none"
    /\ exc = ""
    /\ unfound_subroutine_calls = <<>>
    /\ unfound_function_calls = <<>>
    /\ lastReq = NoReq
    /\ completed = [p \in Passes |-> {}]
    /\ graphCalls = 0
    /\ ret = <<>>

\* _types_compatible(call_type, proc_type)
CheckTypes ==
    /\ m.stage = "input"
    /\ m' = [m EXCEPT !.stage = "typed",
                      !.result = TypesCompatible(m.call_type, m.proc_type)]
    /\ UNCHANGED fvars

\* _procedure_matches of a one-argument call of that type, rank and kind
\* unknown, against a member with one required dummy argument of that type
MatchOneArg ==
    /\ m.stage = "typed"
    /\ m' = [m EXCEPT
               !.stage = "matched",
               !.matches = ProcedureMatches(
                   Proc(<< <<m.proc_type, -1, None>> >>, 1),
                   Call(<< <<m.call_type, -1, None>> >>, <<None>>))]
    /\ UNCHANGED fvars

TypesNext == CheckTypes \/ MatchOneArg

SpecTypes == TypesInit /\ [][TypesNext]_vars

NumericTypes == {"integer", "real", "numeric"}

\* C11: _types_compatible is symmetric; it is true when either side is
\* unknown or both are equal, true between any two of integer, real and
\* numeric, false between one of these and character or logical and between
\* character and logical, and false for two derived:<name> types of different
\* names.  A one-argument call of type logical does not match a member whose
\* dummy argument is integer or real, nor an integer or real call a member
\* whose dummy argument is logical.
C11_TypeTable ==
    m.stage \in {"typed", "matched"} =>
        LET a == m.call_type
            b == m.proc_type
            r == m.result
        IN  /\ r = TypesCompatible(b, a)
            /\ (a = "unknown" \/ b = "unknown" \/ a = b) => r
            /\ (a \in NumericTypes /\ b \in NumericTypes) => r
            /\ (a \in NumericTypes /\ b \in {"character", "logical"}) => ~r
            /\ (b \in NumericTypes /\ a \in {"character", "logical"}) => ~r
            /\ ({a, b} = {"character", "logical"}) => ~r
            /\ ({a, b} = {"derived:t1", "derived:t2"}) => ~r
            /\ (m.stage = "matched"
                /\ {a, b} \in {{"logical", "integer"}, {"logical", "real"}})
                  => ~m.matches

\* C11 witness: a logical actual argument has been matched against a real
\* dummy argument and rejected
C11_Witness ==
    /\ m.stage = "matched"
    /\ m.call_type = "logical" /\ m.proc_type = "real"
    /\ ~m.result /\ ~m.matches

\* ------------------------------------------------------------------------
\* Claims about call sites and lookup (Spec)
\* ------------------------------------------------------------------------

\* The loop of the call pass is about to take a call statement or a function
\* reference that is not an intrinsic
AtCallSite ==
    /\ phase = "calls" /\ tpc = "loop"
    /\ ~NextLine(tree, File(tree.path)).stop
    /\ \/ Cur.line.t = "CallStmt"
       \/ Cur.line.t = "FunctionReference" /\ ~is_fortran_intrinsic(Cur.line.name)
    /\ scope(tree.curr) # NoNode

\* What the name at the call site resolves to
SiteCallee == FindNamedEntity(nodes, scope(tree.curr), Cur.line.name)

\* The members of the interface have parsed signatures that differ at most
\* in the rank of dummy argument k
RankFamily(interface, k) ==
    \A p \in nodes[interface].procedures : \A q \in nodes[interface].procedures :
        /\ nodes[p].parsed /\ k <= Len(nodes[p].arg_ranks)
        /\ nodes[p].arg_types = nodes[q].arg_types
        /\ nodes[p].arg_kinds = nodes[q].arg_kinds
        /\ nodes[p].num_required_args = nodes[q].num_required_args
        /\ Len(nodes[p].arg_ranks) = Len(nodes[q].arg_ranks)
        /\ \A j \in 1..Len(nodes[p].arg_ranks) :
              j # k => nodes[p].arg_ranks[j] = nodes[q].arg_ranks[j]

\* C12: at a call site that resolves to an interface whose members differ
\* only in the rank of dummy argument k, with a positional actual argument k
\* of known rank r and some member matching, the caller gains edges to the
\* interface and to exactly the members whose dummy rank is r or -1; every
\* other member's caller set is left as it was.
C12_RankDiscrimination ==
    [][ (AtCallSite /\ SiteCallee > 0) =>
          LET caller == scope(tree.curr)
              callee == SiteCallee
              call   == CallOf(Cur.line)
              procs  == nodes[callee].procedures
          IN  nodes[callee].kind = "Interface" =>
                \A k \in 1..Len(call.ranks) :
                  ( /\ RankFamily(callee, k)
                    /\ \A i \in 1..Len(call.names) : call.names[i] = None
                    /\ call.ranks[k] # -1
                    /\ \E p \in procs : ProcedureMatches(nodes[p], call) )
                  => LET same == {p \in procs :
                                    nodes[p].arg_ranks[k] \in {call.ranks[k], -1}}
                     IN  /\ nodes'[caller].callees =
                               nodes[caller].callees \cup {callee} \cup same
                         /\ \A p \in procs :
                               nodes'[p].callers =
                                   nodes[p].callers \cup
                                   (IF p \in same THEN {caller} ELSE {})
      ]_vars

\* C12 witness: a caller with an edge to the rank interface and to its rank-1
\* member, and none to its rank-2 member
C12_Witness ==
    \E a \in DOMAIN nodes : \E i \in nodes[a].callees :
        /\ nodes[i].kind = "Interface"
        /\ \E p \in nodes[i].procedures : \E q \in nodes[i].procedures :
              /\ nodes[p].parsed /\ nodes[q].parsed
              /\ nodes[p].arg_types = nodes[q].arg_types
              /\ nodes[p].arg_ranks = <<1>> /\ nodes[q].arg_ranks = <<2>>
              /\ p \in nodes[a].callees /\ q \notin nodes[a].callees
              /\ a \in nodes[p].callers

\* The names a lookup can be asked for: the names of the nodes, the names in
\* the only-lists and the aliases
LookupNames ==
    {nodes[i].name : i \in DOMAIN nodes}
    \cup UNION {UNION {{ul.names[k] : k \in 1..Len(ul.names)} :
                       ul \in {nodes[i].used_names_lists[j] :
                               j \in 1..Len(nodes[i].used_names_lists)}} :
                i \in DOMAIN nodes}
    \cup UNION {UNION {{rl.renames[k][1] : k \in 1..Len(rl.renames)} :
                       rl \in {nodes[i].used_renames_lists[j] :
                               j \in 1..Len(nodes[i].used_renames_lists)}} :
                i \in DOMAIN nodes}

ProgramUnits == {i \in DOMAIN nodes : nodes[i].kind \in ProgramUnitKinds}

\* C13: in every registry the passes build, find_named_entity from every
\* program unit for every name returns a node or failure; it never runs out
\* of stack.
C13_LookupTerminates ==
    \A unit \in ProgramUnits : \A name \in LookupNames :
        FindNamedEntity(nodes, unit, name) # RecErr

\* The i-th used module of the unit is one the lookup of name has to search:
\* imported unrestricted or listing the name
Qualifies(unit, i, name) ==
    LET names == nodes[unit].used_names_lists[i].names
    IN  \E k \in 1..Len(names) : names[k] \in {"*", name}

\* C14: when a module that a program unit imports unrestricted, or with the
\* name in its only-list, or under an alias of that name, can supply the name
\* (the lookup from that module finds it), the lookup from the program unit
\* finds a node too.
C14_LookupComplete ==
    \A unit \in ProgramUnits : \A name \in LookupNames :
        LET ul == nodes[unit].used_names_lists
            rl == nodes[unit].used_renames_lists
            supplied ==
                \/ \E i \in 1..Len(ul) :
                      /\ Qualifies(unit, i, name)
                      /\ FindNamedEntity(nodes, ul[i].mod, name) > 0
                \/ \E i \in 1..Len(rl) : \E k \in 1..Len(rl[i].renames) :
                      /\ rl[i].renames[k][1] = name
                      /\ FindNamedEntity(nodes, rl[i].mod, rl[i].renames[k][2]) > 0
        IN  supplied => FindNamedEntity(nodes, unit, name) > 0

\* C15: at a call site whose callee resolves to an interface, the caller's
\* callee set grows by the interface and by exactly the members overload
\* resolution returns for the call's inferred arguments; the interface and
\* those members gain the caller, and no other node's edge sets change.
C15_InterfaceEdges ==
    [][ (AtCallSite /\ SiteCallee > 0) =>
          LET caller == scope(tree.curr)
              callee == SiteCallee
          IN  (nodes[callee].kind = "Interface" /\ HasCallees(nodes[caller].kind))
              => LET resolved == ResolveInterfaceProcedures(
                                     Members(nodes, callee), CallOf(Cur.line))
                     targets == resolved \cup {callee}
                 IN  /\ resolved \subseteq nodes[callee].procedures
                     /\ DOMAIN nodes' = DOMAIN nodes
                     /\ \A x \in DOMAIN nodes :
                           /\ nodes'[x].callees =
                                 nodes[x].callees \cup
                                 (IF x = caller THEN targets ELSE {})
                           /\ nodes'[x].callers =
                                 nodes[x].callers \cup
                                 (IF x \in targets THEN {caller} ELSE {})
      ]_vars

\* C15 witness: a caller linked both ways to an interface and to some of its
\* members, one member being linked to no caller at all
C15_Witness ==
    \E a \in DOMAIN nodes : \E i \in nodes[a].callees :
        /\ nodes[i].kind = "Interface"
        /\ a \in nodes[i].callers
        /\ \E p \in nodes[i].procedures :
              p \in nodes[a].callees /\ a \in nodes[p].callers
        /\ \E q \in nodes[i].procedures : nodes[q].callers = {}

\* ------------------------------------------------------------------------
\* Claims about the open-scope state (SpecScopes)
\* ------------------------------------------------------------------------

\* The loop of the running pass is about to take a line of one of the kinds
AtLine(kinds) ==
    /\ tpc = "loop"
    /\ ~NextLine(tree, File(tree.path)).stop
    /\ Cur.line.t \in kinds \cap Recognized(Running)

\* The parent pointer of an open-scope state is set only under a current
\* routine whose parent it is, the parent being a top-level routine
NestedOk(curr) ==
    curr.parent_routine # NoNode =>
        /\ curr.routine # NoNode
        /\ nodes[curr.routine].parent = curr.parent_routine
        /\ nodes[curr.parent_routine].parent = NoNode

Closed(curr, t) ==
    CASE t = "EndFunctionStmt" ->
            IF curr.routine # NoNode /\ nodes[curr.routine].kind = "Function"
            THEN curr.routine ELSE NoNode
      [] t = "EndSubroutineStmt" ->
            IF curr.routine # NoNode /\ nodes[curr.routine].kind = "Subroutine"
            THEN curr.routine ELSE NoNode
      [] t = "EndModuleStmt" -> curr.module
      [] t = "EndTypeStmt" -> curr.derived_type
      [] OTHER -> NoNode

ClosingStmts ==
    {"EndFunctionStmt", "EndSubroutineStmt", "EndModuleStmt", "EndTypeStmt"}

\* The closing statement the loop is about to take has nothing to close, or
\* names another construct than the open one
Unmatched ==
    \/ Closed(tree.curr, Cur.line.t) = NoNode
    \/ /\ Cur.line.name # None
       /\ Cur.line.name # nodes[Closed(tree.curr, Cur.line.t)].name

\* C17: a closing statement (end function, end subroutine, end module, end
\* type) read when no construct of its kind is open, or carrying a name other
\* than that of the construct it would close, raises, and the registry, the
\* nodes and the open-scope state are what they were before the statement.
C17_ClosingFatal ==
    [][ (AtLine(ClosingStmts) /\ Unmatched)
        => /\ exc' # "" /\ tpc' = "finally"
           /\ store' = store /\ nodes' = nodes
           /\ tree'.curr = tree.curr ]_vars

\* C17 witness: an end-type statement naming another type has just failed
\* with entities registered and the type, its module still open
C17_Witness ==
    /\ exc = "AssertionError: EndTypeStmt name does not match DerivedTypeStmt name"
    /\ tree.line.t = "EndTypeStmt"
    /\ tree.curr.derived_type # NoNode /\ tree.curr.module # NoNode
    /\ tree.line.name # nodes[tree.curr.derived_type].name
    /\ Len(nodes) > 2

\* ------------------------------------------------------------------------
\* Claims about use statements and the variable table (Spec)
\* ------------------------------------------------------------------------

\* scope.used_names_lists[mod] in the nodes nds, <<>> when mod is no key
NamesOf(nds, s, mod) ==
    LET d == nds[s].used_names_lists
    IN  IF DictIndex(d, mod) = 0 THEN <<>> ELSE d[DictIndex(d, mod)].names

\* scope.used_renames_lists[mod] in the nodes nds, <<>> when mod is no key
RenamesOf(nds, s, mod) ==
    LET d == nds[s].used_renames_lists
    IN  IF DictIndex(d, mod) = 0 THEN <<>> ELSE d[DictIndex(d, mod)].renames

\* The loop is about to take a use statement within a scope, some line
\* following it
AtUse ==
    /\ AtLine({"UseStmt"})
    /\ scope(tree.curr) # NoNode
    /\ Cur.next_line # NoLine

HasLists(nds, s, mod) ==
    /\ DictIndex(nds[s].used_names_lists, mod) # 0
    /\ DictIndex(nds[s].used_renames_lists, mod) # 0

\* The loop is about to take the first use statement of its module in the
\* current scope; used is the module the statement fetches
AtFirstUse(used) ==
    /\ AtUse
    /\ DictIndex(nodes[scope(tree.curr)].used_names_lists, used) = 0
    /\ DictIndex(nodes[scope(tree.curr)].used_renames_lists, used) = 0

\* What the first use statement of a module leaves when the next line is an
\* Only clause (both lists empty, the module pending) and when it is neither
\* an Only clause nor a Rename production (the sentinel, nothing pending)
FirstUseOnlyOrPlain(sc, used) ==
    /\ Cur.next_line.t = "Only"
       => /\ HasLists(nodes', sc, used)
          /\ NamesOf(nodes', sc, used) = <<>>
          /\ RenamesOf(nodes', sc, used) = <<>>
          /\ tree'.curr.used_module = used
    /\ Cur.next_line.t \notin {"Only", "Rename"}
       => /\ NamesOf(nodes', sc, used) = <<"*">>
          /\ tree'.curr.used_module = NoNode

\* C19 as stated: on the first use statement of a module in a scope, an Only
\* clause next begins an empty name list, a Rename production next begins an
\* empty name list and an empty rename list, and anything else sets the name
\* list to <<"*">> at once and clears the pending module.
C19_FirstUseAsStated ==
    [][ AtFirstUse(lastReq'.id)
        => /\ FirstUseOnlyOrPlain(scope(tree.curr), lastReq'.id)
           /\ Cur.next_line.t = "Rename"
              => /\ HasLists(nodes', scope(tree.curr), lastReq'.id)
                 /\ NamesOf(nodes', scope(tree.curr), lastReq'.id) = <<>>
                 /\ RenamesOf(nodes', scope(tree.curr), lastReq'.id) = <<>> ]_vars

\* C19, amended: on the first use statement of a module in a scope, an Only
\* clause next begins an empty name list and an empty rename list; a Rename
\* production next sets the name list to <<"*">> and begins an empty rename
\* list, the module staying pending; anything else sets the name list to
\* <<"*">> at once and clears the pending module.
C19_FirstUse ==
    [][ AtFirstUse(lastReq'.id)
        => /\ FirstUseOnlyOrPlain(scope(tree.curr), lastReq'.id)
           /\ Cur.next_line.t = "Rename"
              => /\ HasLists(nodes', scope(tree.curr), lastReq'.id)
                 /\ NamesOf(nodes', scope(tree.curr), lastReq'.id) = <<"*">>
                 /\ RenamesOf(nodes', scope(tree.curr), lastReq'.id) = <<>>
                 /\ tree'.curr.used_module = lastReq'.id ]_vars

\* C19 witness: the structure pass has just read the first use statement of
\* a module in a scope, a Rename production is next, and the scope holds the
\* sentinel and an empty rename list for the module
C19_Witness ==
    /\ phase = "init" /\ tpc = "loop"
    /\ tree.line.t = "UseStmt" /\ tree.next_line.t = "Rename"
    /\ tree.curr.used_module # NoNode
    /\ HasLists(nodes, scope(tree.curr), tree.curr.used_module)
    /\ NamesOf(nodes, scope(tree.curr), tree.curr.used_module) = <<"*">>
    /\ RenamesOf(nodes, scope(tree.curr), tree.curr.used_module) = <<>>

\* The variable table of the i-th file's ParseTree: the tree a pass is
\* working on, or the tree the forest holds
TableOf(i) == IF tree.path = i THEN tree.variables ELSE trees[i].variables

\* C20: the table the structure pass of a file ends with is the table the
\* forest's tree holds after reset(), and from then on no step of any pass,
\* the start of the interface pass and of the call pass included, removes an
\* entry (scope key, lower-cased name) of a file's table or changes the
\* type, rank or kind recorded under it.
C20_VariablesPersist ==
    [][ /\ (tpc = "finally" /\ phase = "init" /\ exc = "")
           => trees'[idx].variables = tree.variables
        /\ \A i \in DOMAIN trees :
              \A k \in DOMAIN TableOf(i) :
                 /\ k \in DOMAIN TableOf(i)'
                 /\ TableOf(i)'[k] = TableOf(i)[k] ]_vars

\* ------------------------------------------------------------------------
\* Claims about signatures, membership and the unresolved lists (Spec)
\* ------------------------------------------------------------------------

\* The callables whose signature has been parsed (arg_types is not None)
ParsedCallables ==
    {i \in DOMAIN nodes : nodes[i].kind \in CallableKinds /\ nodes[i].parsed}

\* C21: every callable whose signature has been parsed has argument name,
\* type, rank and kind lists of one length and a number of required
\* arguments between 0 and that length; one without dummy arguments has
\* four empty lists and no required argument.
C21_SignatureShape ==
    \A i \in ParsedCallables :
        /\ Len(nodes[i].arg_types) = Len(nodes[i].arg_names)
        /\ Len(nodes[i].arg_ranks) = Len(nodes[i].arg_names)
        /\ Len(nodes[i].arg_kinds) = Len(nodes[i].arg_names)
        /\ nodes[i].num_required_args \in 0..Len(nodes[i].arg_types)
        /\ nodes[i].arg_names = <<>>
           => /\ nodes[i].arg_types = <<>> /\ nodes[i].arg_ranks = <<>>
              /\ nodes[i].arg_kinds = <<>> /\ nodes[i].num_required_args = 0

\* C21 witness: parsed callables with an optional dummy argument, with
\* dummy arguments and no SpecificationPart, and with no dummy argument
C21_Witness ==
    \E i, j, k \in ParsedCallables :
        /\ nodes[i].num_required_args < Len(nodes[i].arg_names)
        /\ Len(nodes[j].arg_names) > 0 /\ nodes[j].arg_types[1] = "unknown"
        /\ nodes[k].arg_names = <<>>

\* ------------------------------------------------------------------------
\* Claims about calls through type-bound procedures (SpecScopes)
\* ------------------------------------------------------------------------

\* The loop of the call pass is about to take a call or a function reference
\* obj%m inside a program unit
AtComponentCall ==
    /\ phase = "calls"
    /\ AtLine({"CallStmt", "FunctionReference"})
    /\ IsComponentRef(Cur.line)
    /\ program_unit(tree.curr) # NoNode

\* The declared type of the object of the designator, None when undeclared
ObjectType ==
    IF Cur.line.object = None THEN None
    ELSE get_variable(nodes, Cur, Cur.line.object).type

\* The object's declared type is a derived type the registry holds
KnownType ==
    /\ StartsWithDerived(ObjectType)
    /\ \E i \in DOMAIN nodes :
          /\ nodes[i].kind = "DerivedType"
          /\ Lower(nodes[i].name) = Lower(DerivedName(ObjectType))

\* What recording the call against the name m itself, looked up from the
\* caller's scope only, leaves
PlainLookup ==
    IF Cur.line.t = "FunctionReference" /\ is_fortran_intrinsic(Cur.line.name)
    THEN Ctx(Cur)
    ELSE RecordCallDependencies(Ctx(Cur), Cur.line.name, CallOf(Cur.line),
                                Cur.line.t = "FunctionReference", NoNode)

\* C22: a call obj%m on an object whose declared derived type T is known and
\* has no binding m is recorded as a call of m looked up from the caller's
\* scope only (no derived type of a reachable registry holds a binding, the
\* binding statement itself failing); the case of a binding m => impl is the
\* same statement with impl for m and T's scope as a second origin.
C22_BoundCalls ==
    [][ (AtComponentCall /\ KnownType)
        => /\ exc' = PlainLookup.exc /\ exc' = ""
           /\ nodes' = PlainLookup.nodes
           /\ tree' = PlainLookup.tree ]_vars

\* ------------------------------------------------------------------------
\* parse_tree.py: type inference of a variable reference (SpecRank)
\* ------------------------------------------------------------------------
MaxRank == 3         \* declared ranks 0..MaxRank
MaxSubs == 3         \* subscripts of a reference

\* One line of an actual argument's block: its level and the substrings
\* _infer_variable_type tests for ("PD" is "ProcedureDesignator -> Name = '",
\* "DR" is "DataRef -> Name = '"), with the name the regular expression finds
ArgLine(lvl, has, name) == [lvl |-> lvl, has |-> has, name |-> name]

SubscriptKinds == {"name", "literal", "triplet"}

\* The subscript lines of fields(...) dumped as an ArrayElement
SectionLines(subs) ==
    [k \in 1..Len(subs) |->
        IF subs[k] = "name"
        THEN ArgLine(3, {"SectionSubscript", "DR"}, "i")
        ELSE IF subs[k] = "literal"
        THEN ArgLine(3, {"SectionSubscript"}, None)
        ELSE ArgLine(3, {"SectionSubscript", "SubscriptTriplet"}, None)]

\* The argument lines of fields(...) dumped as a FunctionReference: an
\* ActualArgSpec line and the line of its expression per subscript
RECURSIVE CallArgLines(_)
CallArgLines(subs) ==
    IF subs = <<>> THEN <<>>
    ELSE <<ArgLine(3, {}, None),
           IF Head(subs) = "name" THEN ArgLine(4, {"DR"}, "i")
           ELSE ArgLine(4, {}, None)>> \o CallArgLines(Tail(subs))

\* The lines _collect_arg_lines gathers below an ActualArgSpec of level 1
RefLines(form, subs) ==
    IF form = "ArrayElement"
    THEN <<ArgLine(2, {"ArrayElement"}, None), ArgLine(3, {"DR"}, "fields")>>
         \o SectionLines(subs)
    ELSE IF form = "FunctionReference"
    THEN <<ArgLine(2, {}, None), ArgLine(3, {"PD"}, "fields")>>
         \o CallArgLines(subs)
    ELSE <<ArgLine(2, {"StructureComponent"}, None),
           ArgLine(3, {"DR"}, "fields"), ArgLine(3, {}, "comp")>>

\* The for loop of _infer_variable_type from line k on; s holds its locals
RECURSIVE ScanLines(_, _, _, _)
ScanLines(lines, start_level, k, s) ==
    IF k > Len(lines) \/ lines[k].lvl <= start_level THEN s
    ELSE LET ln == lines[k]
         IN  IF "PD" \in ln.has /\ s.func_ref_name = None
             THEN ScanLines(lines, start_level, k + 1,
                      [s EXCEPT !.func_ref_name = ln.name,
                                !.func_ref_level = ln.lvl])
             ELSE IF s.func_ref_level # -1 /\ ln.lvl > s.func_ref_level
             THEN ScanLines(lines, start_level, k + 1, s)
             ELSE IF "DR" \in ln.has
             THEN ScanLines(lines, start_level, k + 1,
                      [s EXCEPT !.var_name = ln.name])
             ELSE IF "ArrayElement" \in ln.has
             THEN ScanLines(lines, start_level, k + 1,
                      [s EXCEPT !.has_subscripts = TRUE])
             ELSE IF "SectionSubscript" \in ln.has
             THEN ScanLines(lines, start_level, k + 1,
                      [s EXCEPT !.subscript_count = @ + 1])
             ELSE IF "SubscriptTriplet" \in ln.has
             THEN ScanLines(lines, start_level, k + 1,
                      [s EXCEPT !.has_triplet = TRUE])
             ELSE ScanLines(lines, start_level, k + 1, s)

Max(a, b) == IF a >= b THEN a ELSE b

UnknownType == [type |-> "unknown", rank |-> -1, kind |-> None]

\* ParseTree._infer_variable_type; table is what get_variable answers
InferVariableType(lines, start_level, table) ==
    LET s == ScanLines(lines, start_level, 1,
                 [var_name |-> None, has_subscripts |-> FALSE,
                  subscript_count |-> 0, has_triplet |-> FALSE,
                  func_ref_name |-> None, func_ref_level |-> -1])
        has_structure_component ==
            \E k \in 1..Len(lines) : "StructureComponent" \in lines[k].has
        as_array == s.var_name = None /\ s.func_ref_name # None
                    /\ table[s.func_ref_name] # NoVar
        var_name == IF as_array THEN s.func_ref_name ELSE s.var_name
        has_subscripts == as_array \/ s.has_subscripts
        subscript_count == IF as_array THEN Max(s.subscript_count, 1)
                           ELSE s.subscript_count
    IN  IF var_name # None /\ table[var_name] # NoVar
        THEN LET var_info == table[var_name]
             IN  IF has_structure_component THEN UnknownType
                 ELSE IF has_subscripts /\ subscript_count > 0
                 THEN IF s.has_triplet
                      THEN [var_info EXCEPT
                              !.rank = Max(0, @ - (subscript_count - 1))]
                      ELSE [var_info EXCEPT
                              !.rank = Max(0, @ - subscript_count)]
                 ELSE var_info
        ELSE UnknownType

\* The references: fields of declared rank d with up to MaxSubs subscripts,
\* dumped as an array element or (scalar subscripts only) as a function
\* reference, or a component of fields; i is declared or not
References ==
    {[form |-> "ArrayElement", subs |-> subs] :
        subs \in SeqsUpTo(SubscriptKinds, MaxSubs) \ {<<>>}}
    \cup {[form |-> "FunctionReference", subs |-> subs] :
        subs \in SeqsUpTo({"name", "literal"}, MaxSubs) \ {<<>>}}
    \cup {[form |-> "StructureComponent", subs |-> <<>>]}

VarTable(d, declared) ==
    [n \in {"fields", "i", "comp"} |->
        IF n = "fields" THEN [type |-> "real", rank |-> d, kind |-> "r8_kind"]
        ELSE IF n = "i" /\ declared
        THEN [type |-> "integer", rank |-> 0, kind |-> None]
        ELSE NoVar]

RankInit ==
    /\ m \in {[stage |-> "input", form |-> r.form, subs |-> r.subs, d |-> d,
               declared |-> b, result |-> UnknownType] :
              r \in References, d \in 0..MaxRank, b \in BOOLEAN}
    /\ paths = <<>>
    /\ store = EmptyStore
    /\ nodes = <<>>
    /\ trees = <<>>
    /\ tree = NewParseTree(0)
    /\ phase = "init"
    /\ idx = 0
    /\ tpc = "none"
    /\ exc = ""
    /\ unfound_subroutine_calls = <<>>
    /\ unfound_function_calls = <<>>
    /\ lastReq = NoReq
    /\ completed = [p \in Passes |-> {}]
    /\ graphCalls = 0
    /\ ret = <<>>

\* _infer_variable_type(arg_lines, arg_level) on the lines of the reference
InferRank ==
    /\ m.stage = "input"
    /\ m' = [m EXCEPT !.stage = "inferred",
                      !.result = InferVariableType(RefLines(m.form, m.subs), 1,
                                                   VarTable(m.d, m.declared))]
    /\ UNCHANGED fvars

RankNext == InferRank

SpecRank == RankInit /\ [][RankNext]_vars

\* ------------------------------------------------------------------------
\* Claims about rank inference (SpecRank)
\* ------------------------------------------------------------------------

\* The scalar subscripts of the reference
Scalars(subs) ==
    Cardinality({k \in 1..Len(subs) : subs[k] # "triplet"})

\* C23: the inferred rank of a subscripted reference to a declared array of
\* rank d with s scalar subscripts, the others triplets, is max(0, d - s)
\* (stated here for the references whose scalar subscripts are literals, so
\* that no other variable is named in the lines).
C23_RankReduction ==
    (m.stage = "inferred" /\ m.form # "StructureComponent"
        /\ \A k \in 1..Len(m.subs) : m.subs[k] # "name")
        => m.result.rank = Max(0, m.d - Scalars(m.subs))

\* ------------------------------------------------------------------------
\* Claims about membership, unresolved lists and call sites (Spec)
\* ------------------------------------------------------------------------

\* The registered nodes of a class
Registered(kind) == {store[kind][k] : k \in DOMAIN store[kind]}

\* The nodes some unit holds in its subroutines or functions set
OwnedRoutines ==
    UNION {nodes[i].subroutines \cup nodes[i].functions : i \in 1..Len(nodes)}

\* C24: at every point of every pass, a registered Subroutine or Function
\* with no parent is in the subroutines (functions) set of its program unit,
\* a nested one is in no such set, a registered Interface is in the
\* interfaces set of its program unit and a registered DerivedType is in the
\* derived_types set of its scope.
C24_Membership ==
    /\ \A i \in Registered("Subroutine") :
          IF nodes[i].parent = NoNode
          THEN i \in nodes[nodes[i].program_unit].subroutines
          ELSE i \notin OwnedRoutines
    /\ \A i \in Registered("Function") :
          IF nodes[i].parent = NoNode
          THEN i \in nodes[nodes[i].program_unit].functions
          ELSE i \notin OwnedRoutines
    /\ \A i \in Registered("Interface") :
          i \in nodes[nodes[i].program_unit].interfaces
    /\ \A i \in Registered("DerivedType") :
          i \in nodes[nodes[i].program_unit].derived_types

\* All passes are over with a top-level and a nested routine, an interface
\* and a derived type registered, one of the types declared inside a routine
C24_Witness ==
    /\ phase = "ready" /\ graphCalls >= 1 /\ exc = "" /\ tpc = "none"
    /\ \E i \in Registered("Subroutine") \cup Registered("Function") :
          nodes[i].parent # NoNode
    /\ \E i \in Registered("Subroutine") \cup Registered("Function") :
          nodes[i].parent = NoNode
    /\ Registered("Interface") # {}
    /\ \E i \in Registered("DerivedType") :
          nodes[nodes[i].program_unit].kind \in CallableKinds

\* C25: get_call_graph starts its call passes with empty run-wide lists, and
\* the end of each file's call pass appends what that pass recorded, as it
\* stands just before the reset, to the run-wide lists and returns it: the
\* lists are the concatenation in file order and the reset empties nothing
\* that was returned.
C25_UnfoundAggregated ==
    [][ /\ (phase = "interfaces" /\ phase' = "calls")
           => /\ unfound_subroutine_calls' = <<>>
              /\ unfound_function_calls' = <<>>
        /\ (phase = "calls" /\ tpc = "finally" /\ exc = "")
           => /\ ret' = <<tree.unfound_subroutine_calls,
                          tree.unfound_function_calls>>
              /\ unfound_subroutine_calls' =
                    unfound_subroutine_calls \o tree.unfound_subroutine_calls
              /\ unfound_function_calls' =
                    unfound_function_calls \o tree.unfound_function_calls
              /\ tree'.unfound_subroutine_calls = <<>>
              /\ tree'.unfound_function_calls = <<>>
        /\ (phase = "calls" /\ ~(tpc = "finally" /\ exc = ""))
           => UNCHANGED <<unfound_subroutine_calls, unfound_function_calls>>
      ]_vars

\* get_call_graph has returned over two files whose call passes each left
\* unresolved calls of both kinds
C25_Witness ==
    /\ phase = "ready" /\ graphCalls >= 1 /\ exc = "" /\ tpc = "none"
    /\ Len(paths) = 2
    /\ ret[1] # <<>> /\ ret[2] # <<>>
    /\ Len(unfound_subroutine_calls) > Len(ret[1])
    /\ Len(unfound_function_calls) > Len(ret[2])

\* The call edges and the unresolved lists are as they were
SameEdgesAndLists ==
    /\ Len(nodes') = Len(nodes)
    /\ \A i \in 1..Len(nodes) : /\ nodes'[i].callees = nodes[i].callees
                                /\ nodes'[i].callers = nodes[i].callers
    /\ tree'.unfound_subroutine_calls = tree.unfound_subroutine_calls
    /\ tree'.unfound_function_calls = tree.unfound_function_calls
    /\ UNCHANGED <<unfound_subroutine_calls, unfound_function_calls>>

\* C26: the turn of the call pass that takes a function reference whose
\* callee name, lower-cased, is an intrinsic name adds no call edge and no
\* entry to an unresolved-calls list.
C26_IntrinsicFiltered ==
    [][ (phase = "calls" /\ AtLine({"FunctionReference"})
            /\ is_fortran_intrinsic(Cur.line.name))
        => SameEdgesAndLists ]_vars

\* The call pass has just taken, without an exception, a reference to an
\* intrinsic written in mixed case inside a routine
C26_Witness ==
    /\ phase = "calls" /\ tpc = "loop" /\ exc = ""
    /\ tree.line.t = "FunctionReference"
    /\ is_fortran_intrinsic(tree.line.name)
    /\ tree.line.name # Lower(tree.line.name)
    /\ tree.curr.routine # NoNode

\* The callables that the routine's own use statements make visible under
\* the name: owned by a module the routine uses unrestricted or with the
\* name in the only-list, or owned under the original name of an alias
OwnImports(nds, routine, name) ==
    {OwnEntity(nds, nds[routine].used_names_lists[i].mod, name) :
        i \in {j \in 1..Len(nds[routine].used_names_lists) :
                 LET names == nds[routine].used_names_lists[j].names
                 IN  \E k \in 1..Len(names) : names[k] \in {"*", name}}}
    \cup UNION {{OwnEntity(nds, nds[routine].used_renames_lists[i].mod,
                           nds[routine].used_renames_lists[i].renames[k][2]) :
                    k \in {l \in 1..Len(nds[routine].used_renames_lists[i].renames) :
                             nds[routine].used_renames_lists[i].renames[l][1] = name}} :
                i \in 1..Len(nds[routine].used_renames_lists)}

\* C27: a call inside a routine whose own use statements make the name
\* visible, the used module owning a callable of that name, is recorded as a
\* call edge to that callable.
C27_RoutineImports ==
    [][ (AtCallSite /\ tree.curr.routine # NoNode)
        => \A callee \in OwnImports(nodes, tree.curr.routine, Cur.line.name)
                         \ {NoNode} :
              nodes[callee].kind \in CallableKinds
                 => callee \in nodes'[tree.curr.routine].callees ]_vars

\* The function references among the actual arguments of a call line
NestedRefs(ln) ==
    {ln.cargs[k].ref : k \in {j \in 1..Len(ln.cargs) : "ref" \in DOMAIN ln.cargs[j]}}

\* After the turn the name is accounted for: a filtered intrinsic or MPI
\* name, what the name resolves to from the caller a callee of the caller, or
\* an entry of an unresolved list
RecordedAfter(caller, name) ==
    \/ is_fortran_intrinsic(name) \/ StartsWithMpi(name)
    \/ /\ FindNamedEntity(nodes, caller, name) \notin {NoNode, RecErr}
       /\ FindNamedEntity(nodes, caller, name) \in nodes'[caller].callees
    \/ \E k \in 1..Len(tree'.unfound_subroutine_calls) :
          tree'.unfound_subroutine_calls[k] = <<nodes[caller].name, name>>
    \/ \E k \in 1..Len(tree'.unfound_function_calls) :
          tree'.unfound_function_calls[k] = <<nodes[caller].name, name>>

\* C28: the turn of the call pass that takes a call statement or function
\* reference without raising leaves the callee and every function reference
\* among its actual arguments recorded: as a call edge, as an unresolved
\* entry, or filtered as an intrinsic or foreign name.
C28_EverySiteRecorded ==
    [][ (AtCallSite /\ exc' = "")
        => \A name \in {Cur.line.name} \cup NestedRefs(Cur.line) :
              RecordedAfter(scope(tree.curr), name) ]_vars

\* The same for the callee of the line alone, which does hold
TopSiteRecorded ==
    [][ (AtCallSite /\ exc' = "")
        => RecordedAfter(scope(tree.curr), Cur.line.name) ]_vars

\* ------------------------------------------------------------------------
\* Claims about rename lists and registry keys
\* ------------------------------------------------------------------------

\* The elements of a sequence
Range(seq) == {seq[k] : k \in 1..Len(seq)}

\* C29: no step removes an (alias, original name) pair from the rename list
\* a scope holds for a module, whatever use statements of that module follow.
C29_RenamesAccumulate ==
    [][ \A s \in 1..Len(nodes) :
          \A i \in 1..Len(nodes[s].used_renames_lists) :
             Range(nodes[s].used_renames_lists[i].renames)
                \subseteq Range(RenamesOf(nodes', s,
                                          nodes[s].used_renames_lists[i].mod))
      ]_vars

\* The registry holds an object of the class for the symbol (owner, parent,
\* name), owner and parent being objects
Holds(kind, owner, parent, name) ==
    \E i \in Registered(kind) : /\ nodes[i].program_unit = owner
                                /\ nodes[i].parent = parent
                                /\ nodes[i].name = name

\* The step constructs the object of the class for that symbol
Constructs(kind, owner, parent, name) ==
    \E i \in (Len(nodes) + 1)..Len(nodes') :
        /\ nodes'[i].kind = kind /\ nodes'[i].program_unit = owner
        /\ nodes'[i].parent = parent /\ nodes'[i].name = name
        /\ i \in {store'[kind][k] : k \in DOMAIN store'[kind]}

\* C30: a routine, interface or derived type statement for a symbol that
\* differs from every registered entity of its class in owning unit,
\* enclosing routine (scope, for a type) or name gets an object of its own:
\* it is never answered with the object of another symbol.
C30_KeysInjective ==
    [][ exc' = "" =>
        /\ \A kind \in CallableKinds :
              (AtLine({kind \o "Stmt"})
                 /\ ~Holds(kind, program_unit(tree.curr), tree.curr.routine,
                           Cur.line.name))
              => Constructs(kind, program_unit(tree.curr), tree.curr.routine,
                            Cur.line.name)
        /\ (AtLine({"DerivedTypeDef"})
               /\ ~Holds("DerivedType", scope(tree.curr), NoNode, Cur.line.name))
           => Constructs("DerivedType", scope(tree.curr), NoNode, Cur.line.name)
        /\ (AtLine({"InterfaceStmt"}) /\ Cur.line.form = "Name"
               /\ ~Holds("Interface", program_unit(tree.curr), NoNode,
                         Cur.line.name))
           => Constructs("Interface", program_unit(tree.curr), NoNode,
                         Cur.line.name)
      ]_vars

\* The same for routines and interfaces alone, which holds on these inputs
CallableKeysInjective ==
    [][ exc' = "" =>
        /\ \A kind \in CallableKinds :
              (AtLine({kind \o "Stmt"})
                 /\ ~Holds(kind, program_unit(tree.curr), tree.curr.routine,
                           Cur.line.name))
              => Constructs(kind, program_unit(tree.curr), tree.curr.routine,
                            Cur.line.name)
        /\ (AtLine({"InterfaceStmt"}) /\ Cur.line.form = "Name"
               /\ ~Holds("Interface", program_unit(tree.curr), NoNode,
                         Cur.line.name))
           => Constructs("Interface", program_unit(tree.curr), NoNode,
                         Cur.line.name)
      ]_vars

\* ------------------------------------------------------------------------
\* The signature parse of one routine and a one-argument call (SpecDummy)
\* ------------------------------------------------------------------------

\* subroutine s(a) with no specification part, with one that declares
\* another entity only, and with one that declares a
DummyRoutines ==
    {SubroutineStmt("s", <<"a">>, FALSE, <<>>),
     SubroutineStmt("s", <<"a">>, TRUE, <<Decl("n", "integer", 1, "4", FALSE)>>),
     SubroutineStmt("s", <<"a">>, TRUE, <<Decl("a", "real", 1, "8", FALSE)>>)}

\* The (type, rank, kind) parse_call_arguments can infer for the actual
DummyActuals ==
    {"unknown", "integer", "real", "character", "derived:t1"}
        \X {-1, 0, 1, 2} \X {None, "4", "8"}

\* The context at the routine statement of s in module mh
DummyCtx ==
    [store |-> EmptyStore,
     nodes |-> <<NewNode("Module", "mh", NoNode, NoNode),
                 NewNode("Subroutine", "s", 1, NoNode)>>,
     tree |-> [NewParseTree(0) EXCEPT !.curr.module = 1, !.curr.routine = 2],
     exc |-> "", req |-> NoReq]

DummyInit ==
    /\ m \in {[stage |-> "input", ln |-> r, actual |-> a,
               proc |-> DummyCtx.nodes[2], result |-> FALSE] :
              r \in DummyRoutines, a \in DummyActuals}
    /\ paths = <<>>
    /\ store = EmptyStore
    /\ nodes = <<>>
    /\ trees = <<>>
    /\ tree = NewParseTree(0)
    /\ phase = "init"
    /\ idx = 0
    /\ tpc = "none"
    /\ exc = ""
    /\ unfound_subroutine_calls = <<>>
    /\ unfound_function_calls = <<>>
    /\ lastReq = NoReq
    /\ completed = [p \in Passes |-> {}]
    /\ graphCalls = 0
    /\ ret = <<>>

\* _parse_routine_signature(routine, arg_names) at the routine statement
ParseSignature ==
    /\ m.stage = "input"
    /\ m' = [m EXCEPT !.stage = "parsed",
                      !.proc = ParseRoutineSignature(DummyCtx, 2, m.ln).nodes[2]]
    /\ UNCHANGED fvars

\* _procedure_matches(proc, ...) for a call with that one actual argument
MatchDummy ==
    /\ m.stage = "parsed"
    /\ m' = [m EXCEPT !.stage = "matched",
                      !.result = ProcedureMatches(m.proc,
                                                  Call(<<m.actual>>, <<None>>))]
    /\ UNCHANGED fvars

DummyNext == ParseSignature \/ MatchDummy

SpecDummy == DummyInit /\ [][DummyNext]_vars

\* ------------------------------------------------------------------------
\* Claims about undeclared dummy arguments (SpecDummy)
\* ------------------------------------------------------------------------

\* The declaration of the dummy argument a was not recovered
Undeclared(ln) == ~ln.spec \/ LastDecl(ln.decls, "a") = 0

\* C31: a dummy argument whose declaration was not recovered is recorded as
\* unknown on every axis (type unknown, rank -1, kind none) and its
\* procedure matches a call with an actual argument of any type, rank, kind.
C31_UndeclaredUnknown ==
    (m.stage = "matched" /\ Undeclared(m.ln))
        => /\ m.proc.arg_types = <<"unknown">>
           /\ m.proc.arg_ranks = <<-1>>
           /\ m.proc.arg_kinds = <<None>>
           /\ m.result

\* ------------------------------------------------------------------------
\* Lookup through rename aliases
\* ------------------------------------------------------------------------

\* The lookup of name from the unit reaches the rename loop of dfs: the unit
\* owns no entity of that name and the loop over used_names_lists returned
\* nothing
ReachesRenames(unit, name) ==
    /\ OwnEntity(nodes, unit, name) = NoNode
    /\ ~DfsUses(nodes, unit, name, 1, {<<unit, name>>}, MaxDepth).done

\* C32: when the sought name is an alias the unit records for a used module
\* and neither the unit itself nor its name lists supply the name, the lookup
\* returns what the lookup of the original name from that module returns.
C32_AliasResolvesOriginal ==
    \A unit \in ProgramUnits : \A name \in LookupNames :
        LET rl == nodes[unit].used_renames_lists
        IN  \A i \in 1..Len(rl) : \A k \in 1..Len(rl[i].renames) :
                (rl[i].renames[k][1] = name /\ ReachesRenames(unit, name))
                    => FindNamedEntity(nodes, unit, name)
                         = FindNamedEntity(nodes, rl[i].mod, rl[i].renames[k][2])

\* Some lookup of an alias finds the renamed entity although the used module
\* has nothing under the alias itself
C32_Witness ==
    \E unit \in ProgramUnits : \E name \in LookupNames :
        LET a == FirstAlias(nodes, unit, name)
        IN  /\ a.mod # NoNode
            /\ a.name # name
            /\ ReachesRenames(unit, name)
            /\ FindNamedEntity(nodes, unit, name) > 0
            /\ FindNamedEntity(nodes, a.mod, name) = NoNode

\* ------------------------------------------------------------------------
\* Dispatch of the call pass
\* ------------------------------------------------------------------------

\* C33: a turn of the call pass on a call statement ends with the
\* subroutine-call recognizer that handled it: the registry, the tree and the
\* exception in flight are what that recognizer leaves, no later recognizer
\* having acted on the line the cursor advanced to.
C33_DispatchEndsAtFirst ==
    [][AtLine({"CallStmt"}) =>
          LET first == ParseSubroutineCallStmt(Ctx(Cur), Cur.line)
          IN  /\ nodes' = first.nodes
              /\ tree' = first.tree
              /\ exc' = first.exc]_vars

\* ------------------------------------------------------------------------
\* Fatal errors and the orchestrator
\* ------------------------------------------------------------------------

\* Every entity the registry holds keeps its key, its node and the node's
\* kind and name over the step
RegistryKept ==
    \A k \in Kinds : \A key \in DOMAIN store[k] :
        /\ key \in DOMAIN store'[k]
        /\ store'[k][key] = store[k][key]
        /\ nodes'[store[k][key]].kind = nodes[store[k][key]].kind
        /\ nodes'[store[k][key]].name = nodes[store[k][key]].name

\* C34: when a pass leaves a file with an exception in flight, the tree is
\* reset, the exception leaves the orchestrator (no pass is running and the
\* forest is failed or back at rest, on the same file), no file is marked as
\* processed, and the registry is as the failing turn left it; no step of the
\* run ever drops or rebinds an interned entity.
C34_FatalPropagates ==
    [][/\ RegistryKept
       /\ (tpc = "finally" /\ exc # "") =>
             /\ tpc' = "none" /\ exc' = exc
             /\ phase' = (IF phase = "init" THEN "failed" ELSE "ready")
             /\ idx' = idx
             /\ Clean(tree')
             /\ completed' = completed
             /\ store' = store /\ nodes' = nodes]_vars

\* After a fatal error nothing runs but a new call of get_call_graph, which
\* starts again at the first file
C34_Stopped ==
    [][(tpc = "none" /\ exc # "") =>
          /\ phase = "ready" /\ phase' = "interfaces" /\ idx' = 1
          /\ graphCalls' = graphCalls + 1]_vars

\* A pass has raised on the first of two files after entities were interned
C34_Witness ==
    /\ tpc = "none" /\ exc # ""
    /\ idx = 1 /\ Len(paths) = 2
    /\ Len(nodes) > 0

\* ------------------------------------------------------------------------
\* Variable lookup
\* ------------------------------------------------------------------------

\* The names the variable table of the tree holds
VarNames == {k[2] : k \in DOMAIN tree.variables}

\* The scopes get_variable is to search, in order: the current routine, its
\* parent routine, the program unit
SearchScopes ==
    SelectSeq(<<tree.curr.routine,
                IF tree.curr.routine # NoNode THEN tree.curr.parent_routine
                ELSE NoNode,
                program_unit(tree.curr)>>,
              LAMBDA s : s # NoNode)

\* The entries of the name that were declared in the scope
EntriesOf(s, name) ==
    {k \in DOMAIN tree.variables :
        k[2] = Lower(name) /\ tree.declared_in[k] = s}

\* The entry of the first scope in the search order that declared the name
FirstDeclared(name) ==
    LET hits == {i \in 1..Len(SearchScopes) :
                    EntriesOf(SearchScopes[i], name) # {}}
    IN  IF hits = {} THEN NoVar
        ELSE LET i == CHOOSE i \in hits : \A j \in hits : i <= j
             IN  tree.variables[CHOOSE k \in EntriesOf(SearchScopes[i], name) :
                                    TRUE]

\* C35: while a pass is on a file, get_variable gives for every name the
\* entry that the first of the current routine, its parent routine and the
\* program unit to declare the name wrote, and none when none of the three
\* declared it: never an entry another routine or program unit wrote.
C35_LookupOrder ==
    tpc = "loop" =>
        \A name \in VarNames :
            get_variable(nodes, tree, name) = FirstDeclared(name)

\* ------------------------------------------------------------------------
\* Declared rank: the array-spec lines of a declaration (SpecDecl)
\* ------------------------------------------------------------------------

\* A line below a TypeDeclarationStmt: its level, the production chain it
\* opens with ("AttrSpec -> ArraySpec", "ArraySpec" or none), its last
\* production, and the count of "-> int = 'n'" where the line carries one
DeclLine(lvl, head, prod, int) ==
    [lvl |-> lvl, head |-> head, prod |-> prod, int |-> int]

\* The array-specs of the inputs: none, (:,..) with its count, explicit and
\* assumed shape of one to MaxRank dimensions, (..) and (*)
ArrayShapes ==
    {[form |-> f, n |-> 0] : f \in {"none", "AssumedRankSpec", "ImpliedShapeSpec"}}
    \cup {[form |-> f, n |-> n] :
            f \in {"DeferredShapeSpecList", "ExplicitShapeSpec", "AssumedShapeSpec"},
            n \in 1..MaxRank}

RECURSIVE DimensionLines(_, _, _, _)
\* The lines of dimensions k..n of an explicit or assumed shape at level lvl:
\* one line a dimension, the first with the head, an explicit bound with the
\* line of its expression below it
DimensionLines(shape, lvl, head, k) ==
    IF k > shape.n THEN <<>>
    ELSE <<DeclLine(lvl, IF k = 1 THEN head ELSE "", shape.form, 0)>>
         \o (IF shape.form = "ExplicitShapeSpec"
             THEN <<DeclLine(lvl + 1, "", "SpecificationExpr", 0)>> ELSE <<>>)
         \o DimensionLines(shape, lvl, head, k + 1)

\* The lines of an array-spec at level lvl
ArraySpecLines(shape, lvl, head) ==
    IF shape.form = "none" THEN <<>>
    ELSE IF shape.form = "DeferredShapeSpecList"
    THEN <<DeclLine(lvl, head, shape.form, shape.n)>>
    ELSE IF shape.form \in {"AssumedRankSpec", "ImpliedShapeSpec"}
    THEN <<DeclLine(lvl, head, shape.form, 0)>>
    ELSE DimensionLines(shape, lvl, head, 1)

\* The lines below the TypeDeclarationStmt of  real, dimension(attr) :: a(ent)
DeclLines(attr, ent) ==
    <<DeclLine(1, "", "DeclarationTypeSpec", 0)>>
    \o ArraySpecLines(attr, 1, "AttrSpec -> ArraySpec")
    \o <<DeclLine(1, "", "EntityDecl", 0), DeclLine(2, "", "Name", 0)>>
    \o ArraySpecLines(ent, 2, "ArraySpec")

\* ParseTree._parse_array_spec: found is "not None"
ParseArraySpec(line) ==
    IF line.prod = "DeferredShapeSpecList" THEN [found |-> TRUE, rank |-> line.int]
    ELSE IF line.prod = "AssumedShapeSpec" THEN [found |-> TRUE, rank |-> 1]
    ELSE IF line.prod = "AssumedRankSpec" THEN [found |-> TRUE, rank |-> -1]
    ELSE IF line.prod = "ImpliedShapeSpec" THEN [found |-> TRUE, rank |-> 1]
    ELSE IF line.prod = "ExplicitShapeSpec" THEN [found |-> TRUE, rank |-> 1]
    ELSE [found |-> FALSE, rank |-> 0]

RECURSIVE CountSiblings(_, _, _, _)
\* The while loop of _count_explicit_dimensions from the i-th line on: count
\* and the first line it leaves unread
CountSiblings(lines, i, spec_level, count) ==
    IF i > Len(lines) THEN [count |-> count, pos |-> i]
    ELSE IF lines[i].lvl > spec_level
    THEN CountSiblings(lines, i + 1, spec_level, count)
    ELSE IF lines[i].lvl = spec_level
            /\ lines[i].prod \in {"ExplicitShapeSpec", "AssumedShapeSpec"}
    THEN CountSiblings(lines, i + 1, spec_level, count + 1)
    ELSE [count |-> count, pos |-> i]

\* ParseTree._count_explicit_dimensions(first_line), the i-th line being
\* first_line and already read
CountExplicitDimensions(lines, i) ==
    IF lines[i].prod \in {"ExplicitShapeSpec", "AssumedShapeSpec"}
    THEN CountSiblings(lines, i + 1, lines[i].lvl, 0)
    ELSE [count |-> 0, pos |-> i + 1]

\* The last statement of _parse_entity_decl: the rank of the entity's own
\* array-spec when it is positive, else the rank of the declaration
EntityRank(entity_rank, base_rank) ==
    IF entity_rank > 0 THEN entity_rank ELSE base_rank

RECURSIVE EntityLoop(_, _, _, _)
\* The while loop of _parse_entity_decl from the i-th line on: entity_rank
EntityLoop(lines, i, entity_level, entity_rank) ==
    IF i > Len(lines) \/ lines[i].lvl <= entity_level THEN entity_rank
    ELSE IF lines[i].prod = "Name"
    THEN EntityLoop(lines, i + 1, entity_level, entity_rank)
    ELSE IF lines[i].head # ""
    THEN LET r == ParseArraySpec(lines[i])
             c == CountExplicitDimensions(lines, i)
         IN  EntityLoop(lines, c.pos, entity_level,
                        (IF r.found THEN r.rank ELSE entity_rank) + c.count)
    ELSE EntityLoop(lines, i + 1, entity_level, entity_rank)

\* ParseTree._parse_entity_decl(base_rank), the i-th line being the
\* EntityDecl line
ParseEntityDecl(lines, i, base_rank) ==
    EntityRank(EntityLoop(lines, i + 1, lines[i].lvl, 0), base_rank)

RECURSIVE DeclaredRank(_, _, _)
\* The loop of _parse_routine_signature (and of parse_variable_declaration)
\* over the lines of one declaration from the i-th on: the rank recorded for
\* its entity
DeclaredRank(lines, i, decl_rank) ==
    IF i > Len(lines) THEN decl_rank
    ELSE IF lines[i].head = "AttrSpec -> ArraySpec"
    THEN LET r == ParseArraySpec(lines[i])
             c == CountExplicitDimensions(lines, i)
         IN  DeclaredRank(lines, c.pos,
                          (IF r.found THEN r.rank ELSE decl_rank) + c.count)
    ELSE IF lines[i].prod = "EntityDecl"
    THEN ParseEntityDecl(lines, i, decl_rank)
    ELSE DeclaredRank(lines, i + 1, decl_rank)

DeclInit ==
    /\ m \in {[stage |-> "input", attr |-> a, ent |-> e, rank |-> 0] :
              a \in ArrayShapes, e \in ArrayShapes}
    /\ paths = <<>>
    /\ store = EmptyStore
    /\ nodes = <<>>
    /\ trees = <<>>
    /\ tree = NewParseTree(0)
    /\ phase = "init"
    /\ idx = 0
    /\ tpc = "none"
    /\ exc = ""
    /\ unfound_subroutine_calls = <<>>
    /\ unfound_function_calls = <<>>
    /\ lastReq = NoReq
    /\ completed = [p \in Passes |-> {}]
    /\ graphCalls = 0
    /\ ret = <<>>

\* The declaration is parsed
ParseDecl ==
    /\ m.stage = "input"
    /\ m' = [m EXCEPT !.stage = "parsed",
                      !.rank = DeclaredRank(DeclLines(m.attr, m.ent), 1, 0)]
    /\ UNCHANGED fvars

DeclNext == ParseDecl

SpecDecl == DeclInit /\ [][DeclNext]_vars

\* The rank the array-spec stands for
RankOf(shape) ==
    IF shape.form = "none" THEN 0
    ELSE IF shape.form = "AssumedRankSpec" THEN -1
    ELSE IF shape.form = "ImpliedShapeSpec" THEN 1
    ELSE shape.n

\* C36: the rank recorded for a declared entity is the rank its array-spec
\* stands for (the deferred-shape count, the number of explicit or assumed
\* shape dimensions, -1 for assumed rank, 1 for implied shape, 0 without an
\* array-spec), be the array-spec an attribute of the declaration or part of
\* the entity declaration.
C36_DeclaredRank ==
    m.stage = "parsed" =>
        /\ m.ent.form = "none" => m.rank = RankOf(m.attr)
        /\ m.attr.form = "none" => m.rank = RankOf(m.ent)

\* The same for an array-spec given as an attribute, and for every
\* array-spec of the entity other than assumed rank
C36_AttributeRank ==
    m.stage = "parsed" =>
        /\ m.ent.form = "none" => m.rank = RankOf(m.attr)
        /\ (m.attr.form = "none" /\ m.ent.form # "AssumedRankSpec")
              => m.rank = RankOf(m.ent)

\* ------------------------------------------------------------------------
\* The later passes over signatures and variable tables
\* ------------------------------------------------------------------------

\* A step of the interface pass or the call pass leaves the signature of
\* every callable that has one as it is
SignatureStep ==
    phase \in {"interfaces", "calls"} =>
        \A id \in DOMAIN nodes :
           (nodes[id].kind \in CallableKinds /\ nodes[id].parsed) =>
              (/\ nodes'[id].parsed
               /\ nodes'[id].arg_names = nodes[id].arg_names
               /\ nodes'[id].arg_types = nodes[id].arg_types
               /\ nodes'[id].arg_ranks = nodes[id].arg_ranks
               /\ nodes'[id].arg_kinds = nodes[id].arg_kinds
               /\ nodes'[id].num_required_args = nodes[id].num_required_args)

SignaturesKept == [][SignatureStep]_vars

\* The variable table a file's tree holds when the interface pass or the call
\* pass returns is the table the forest's tree held when the pass began
TableStep ==
    (tpc = "finally" /\ phase \in {"interfaces", "calls"} /\ exc = "")
        => tree.variables = trees[idx].variables

\* C37: the interface pass and the call pass leave every signature as the
\* structure pass derived it, and the variable table of a file is after each
\* of them the table of the end of the structure pass.
C37_LaterPassesIdempotent == [][SignatureStep /\ TableStep]_vars

\* ------------------------------------------------------------------------
\* The line reader
\* ------------------------------------------------------------------------

\* The 1-based index in its file of the line that is current: the generator
\* has read one line ahead until it stands at its last yield
CurrentIndex(tr) ==
    IF tr.gen = "final" THEN Len(File(tr.path)) ELSE tr.read - 1

\* C38: whenever a line of the file is current, line_number is the 1-based
\* index of that line in the file, the last line included, and the lookahead
\* is the line after it, none after the last line.
C38_LineNumber ==
    (tpc \in {"loop", "finally"} /\ tree.gen \in {"started", "final"}) =>
        LET f == File(tree.path)
            k == CurrentIndex(tree)
        IN  /\ tree.line = f[k]
            /\ tree.next_line = (IF k < Len(f) THEN f[k + 1] ELSE NoLine)
            /\ tree.line_number = k

\* The same without the line number: the current line and the lookahead are
\* as stated on every line
LookaheadRight ==
    (tpc \in {"loop", "finally"} /\ tree.gen \in {"started", "final"}) =>
        LET f == File(tree.path)
            k == CurrentIndex(tree)
        IN  /\ tree.line = f[k]
            /\ tree.next_line = (IF k < Len(f) THEN f[k + 1] ELSE NoLine)
            /\ tree.gen = "started" => tree.line_number = k

====
